---- MODULE Spec2Model ----
(***************************************************************************)
(* GroupBuilder: the CP-SAT seating model (group_builder.py), the          *)
(* incremental batch loop, and the single-session regeneration endpoint    *)
(* (routers/assignments.py).                                               *)
(*                                                                         *)
(* The CP-SAT solver is an external collaborator.  It is modelled by its   *)
(* contract: OPTIMAL returns a minimizer of the objective over the models  *)
(* of the constraints the code added, FEASIBLE returns any model of them,  *)
(* INFEASIBLE is returned only when there is none, and UNKNOWN (time limit *)
(* reached without a solution) is always possible.                         *)
(*                                                                         *)
(* Encoding of Python values:                                              *)
(*   - a participant name is a natural number (a name code); ids are       *)
(*     integers too, so every key built from names or ids carries the      *)
(*     Python type of its components ("str" / "int") as its first field:   *)
(*     a tuple of str never equals a tuple of int;                         *)
(*   - None is 0 for couple_id and for partner (both are tested only for   *)
(*     truthiness or copied);                                              *)
(*   - the boolean variables x[(id, s, t)] of one session are a function   *)
(*     id -> set of the tables t whose variable is true.                   *)
(***************************************************************************)
EXTENDS Integers, Sequences, FiniteSets, TLC

\* ------------------------------------------------------------------ bounds
MaxSessions == 2
MaxTables == 2
MaxBatch == 2
MaxAbsent == 1

\* ------------------------------------------------------------- sequences
Range(f) == {f[i] : i \in DOMAIN f}

Min2(a, b) == IF a <= b THEN a ELSE b

Max2(a, b) == IF a >= b THEN a ELSE b

RECURSIVE SetToSeq(_)
\* ascending enumeration of a finite set of integers
SetToSeq(S) ==
  IF S = {} THEN <<>>
  ELSE LET m == CHOOSE a \in S : \A b \in S : a <= b
       IN <<m>> \o SetToSeq(S \ {m})

RECURSIVE Concat(_)
Concat(seqs) == IF seqs = <<>> THEN <<>> ELSE Head(seqs) \o Concat(Tail(seqs))

\* the subsequence of q whose elements satisfy membership in the index set I
SubSeqAt(q, I) == [k \in 1..Cardinality(I) |-> q[SetToSeq(I)[k]]]

\* ----------------------------------------------------------- participants
P(id, name, religion, gender, partner, couple_id) ==
  [id |-> id, name |-> name, religion |-> religion, gender |-> gender,
   partner |-> partner, couple_id |-> couple_id]

\* participant names, coded by their rank in the order sorted() gives strings
Ann == 1
Bob == 2
Cal == 3
Dee == 4

\* Rosters as the normalizer hands them to the solver: ids are index + 1,
\* names are not checked for uniqueness, partners share a couple_id.
RosterCouple ==
  << P(1, Ann, "Christian", "Female", Bob, 1),
     P(2, Bob, "Jewish", "Male", Ann, 1),
     P(3, Cal, "Muslim", "Female", 0, 0),
     P(4, Dee, "other", "Male", 0, 0) >>

RosterFaiths ==
  << P(1, Ann, "Christian", "Female", 0, 0),
     P(2, Bob, "Christian", "Male", 0, 0),
     P(3, Cal, "Jewish", "Female", 0, 0),
     P(4, Dee, "Jewish", "Male", 0, 0) >>

RosterMixed ==
  << P(1, Ann, "Christian", "Female", 0, 0),
     P(2, Bob, "Jewish", "Male", 0, 0),
     P(3, Cal, "Muslim", "Male", 0, 0),
     P(4, Dee, "other", "Male", 0, 0) >>

RosterSameName ==
  << P(1, Ann, "Christian", "Female", 0, 0),
     P(2, Bob, "Jewish", "Male", 0, 0),
     P(3, Bob, "Jewish", "Male", 0, 0) >>

RosterPair ==
  << P(1, Ann, "Christian", "Male", Bob, 1),
     P(2, Bob, "Christian", "Female", Ann, 1) >>

Rosters == {RosterCouple, RosterFaiths, RosterMixed, RosterSameName, RosterPair}

Names == {Ann, Bob, Cal, Dee}

\* the participant view the decoder emits (group_builder.py 441-446)
View(p) ==
  [name |-> p.name, religion |-> p.religion, gender |-> p.gender,
   partner |-> p.partner]

\* ------------------------------------------------------------ GroupBuilder
DefaultPairingWindow == 3

\* GroupBuilder.__init__
NewGroupBuilder(participants, num_tables, num_sessions, locked_assignments, historical_pairings, current_table_assignments, pairing_window_size, require_different_assignments) ==
  [participants |-> participants,
   num_tables |-> num_tables,
   num_sessions |-> num_sessions,
   locked_assignments |-> locked_assignments,
   historical_pairings |-> historical_pairings,
   current_table_assignments |-> current_table_assignments,
   require_different_assignments |-> require_different_assignments,
   pairing_window_size |->
     IF pairing_window_size = 0 THEN DefaultPairingWindow
     ELSE pairing_window_size]

TablesOf(gb) == 0..(gb.num_tables - 1)

SessionsOf(gb) == 0..(gb.num_sessions - 1)

IdsOf(gb) == {gb.participants[i].id : i \in DOMAIN gb.participants}

ReligionsOf(gb) == {gb.participants[i].religion : i \in DOMAIN gb.participants}

GendersOf(gb) == {gb.participants[i].gender : i \in DOMAIN gb.participants}

\* sum(x[(p["id"], s, t)] for p in participants if pred(p)): the sum runs over
\* the participant list, so it is a count of list positions
CountAt(gb, xs, t, I) ==
  Cardinality({i \in I : t \in xs[gb.participants[i].id]})

\* "Each participant sits at one table per session": sum_t x[p,s,t] == 1
OneTableRowsAtMost(gb) == {ts \in SUBSET TablesOf(gb) : Cardinality(ts) <= 1}

OneTableRows(gb) == {ts \in SUBSET TablesOf(gb) : Cardinality(ts) = 1}

\* the assignments of one session that satisfy the exactly-one constraint
SessionCandidates(gb) == [IdsOf(gb) -> OneTableRows(gb)]

\* max/min IntVars in 0..N bounding every table's count, max - min <= 1
SpreadOKLoose(gb, xs, I) == TRUE

SpreadOK(gb, xs, I) ==
  \E mx \in 0..Len(gb.participants), mn \in 0..Len(gb.participants) :
    /\ \A t \in TablesOf(gb) : mx >= CountAt(gb, xs, t, I) /\ mn <= CountAt(gb, xs, t, I)
    /\ mx - mn <= 1

BalanceOKNone(gb, xs) == TRUE

BalanceOK(gb, xs) == SpreadOK(gb, xs, DOMAIN gb.participants)

ReligionOKNone(gb, xs) == TRUE

ReligionOK(gb, xs) ==
  \A v \in ReligionsOf(gb) :
    SpreadOK(gb, xs, {i \in DOMAIN gb.participants : gb.participants[i].religion = v})

GenderOK(gb, xs) ==
  \A v \in GendersOf(gb) :
    SpreadOK(gb, xs, {i \in DOMAIN gb.participants : gb.participants[i].gender = v})

\* couples = groups of participants with the same truthy couple_id
CoupleIdsOf(gb) ==
  {gb.participants[i].couple_id : i \in DOMAIN gb.participants} \ {0}

CouplesOKNone(gb, xs) == TRUE

CouplesOK(gb, xs) ==
  \A c \in CoupleIdsOf(gb) : \A t \in TablesOf(gb) :
    CountAt(gb, xs, t, {i \in DOMAIN gb.participants : gb.participants[i].couple_id = c}) <= 1

\* _apply_locked_assignments: x[(p_id, s, t)] == value for the keys that are
\* variables of this model
LockedOK(gb, xs, s) ==
  \A k \in DOMAIN gb.locked_assignments :
    (k[2] = s /\ k[1] \in IdsOf(gb) /\ k[3] \in TablesOf(gb))
      => ((k[3] \in xs[k[1]]) <=> gb.locked_assignments[k])

\* hard mode: x[(p_id, 0, current_table)] == 0
ForbiddenOKNone(gb, xs, s) == TRUE

ForbiddenOK(gb, xs, s) ==
  (/\ DOMAIN gb.current_table_assignments # {}
   /\ gb.require_different_assignments
   /\ s = 0)
  => \A i \in DOMAIN gb.participants :
       LET p_id == gb.participants[i].id IN
         (/\ p_id \in DOMAIN gb.current_table_assignments
          /\ gb.current_table_assignments[p_id] \in TablesOf(gb))
         => gb.current_table_assignments[p_id] \notin xs[p_id]

\* _add_symmetry_breaking: x[(participants[0].id, 0, 0)] == 1
SymmetryOK(gb, xs, s) ==
  (Len(gb.participants) > 0 /\ gb.num_sessions > 0 /\ gb.num_tables > 0 /\ s = 0)
  => 0 \in xs[gb.participants[1].id]

\* the hard constraints of session s other than symmetry breaking
ConstraintsOK(gb, xs, s) ==
  /\ BalanceOK(gb, xs)
  /\ ReligionOK(gb, xs)
  /\ GenderOK(gb, xs)
  /\ CouplesOK(gb, xs)
  /\ LockedOK(gb, xs, s)
  /\ ForbiddenOK(gb, xs, s)

SessionFeasible(gb, s) ==
  {xs \in SessionCandidates(gb) : ConstraintsOK(gb, xs, s) /\ SymmetryOK(gb, xs, s)}

RECURSIVE FeasiblePrefix(_, _)
\* the models of the constraints on sessions 0..n-1, as sequences x with
\* x[s + 1] the assignment of session s (no hard constraint links sessions)
FeasiblePrefix(gb, n) ==
  IF n = 0 THEN {<<>>}
  ELSE {Append(pre, xs) : pre \in FeasiblePrefix(gb, n - 1),
                          xs \in SessionFeasible(gb, n - 1)}

Feasible(gb) == FeasiblePrefix(gb, gb.num_sessions)

\* ---------------------------------------------------------------- objective
\* pair_key = tuple(sorted([a, b])); ty is the Python type of a and b
PairKey(ty, a, b) == <<ty, Min2(a, b), Max2(a, b)>>

\* pair_meets_session[s]: the max over tables of x[p1,s,t] * x[p2,s,t]
Meets(gb, x, i, j, s) ==
  \E t \in TablesOf(gb) :
    t \in x[s + 1][gb.participants[i].id] /\ t \in x[s + 1][gb.participants[j].id]

\* for i, p1 in enumerate(participants): for p2 in participants[i+1:]
PairsOf(gb) ==
  {ij \in (DOMAIN gb.participants) \X (DOMAIN gb.participants) : ij[1] < ij[2]}

\* "if pair_key in self.historical_pairings: penalty_count += pair_meets_session[s]"
HistoricalTerms(gb, x) ==
  {<<ij, s>> \in PairsOf(gb) \X SessionsOf(gb) :
     /\ PairKey("int", gb.participants[ij[1]].id, gb.participants[ij[2]].id)
          \in gb.historical_pairings
     /\ Meets(gb, x, ij[1], ij[2], s)}

\* for s1 in sessions: for s2 in range(s1 + 1, min(s1 + W + 1, len(sessions)))
WindowTermsAll(gb, x) ==
  {<<ij, s1, s2>> \in PairsOf(gb) \X SessionsOf(gb) \X SessionsOf(gb) :
     /\ s1 + 1 <= s2
     /\ Meets(gb, x, ij[1], ij[2], s1)
     /\ Meets(gb, x, ij[1], ij[2], s2)}

WindowTerms(gb, x) ==
  {<<ij, s1, s2>> \in PairsOf(gb) \X SessionsOf(gb) \X SessionsOf(gb) :
     /\ s1 + 1 <= s2
     /\ s2 < Min2(s1 + gb.pairing_window_size + 1, gb.num_sessions)
     /\ Meets(gb, x, ij[1], ij[2], s1)
     /\ Meets(gb, x, ij[1], ij[2], s2)}

\* soft mode: penalty_count += x[(p_id, 0, current_table)]
SameTableTerms(gb, x) ==
  IF /\ DOMAIN gb.current_table_assignments # {}
     /\ ~gb.require_different_assignments
     /\ gb.num_sessions > 0
  THEN {i \in DOMAIN gb.participants :
          LET p_id == gb.participants[i].id IN
            /\ p_id \in DOMAIN gb.current_table_assignments
            /\ gb.current_table_assignments[p_id] \in TablesOf(gb)
            /\ gb.current_table_assignments[p_id] \in x[1][p_id]}
  ELSE {}

\* the expression handed to model.Minimize
Penalty(gb, x) ==
  Cardinality(HistoricalTerms(gb, x)) + Cardinality(WindowTerms(gb, x))
    + Cardinality(SameTableTerms(gb, x))

\* the minimizers of the objective among a set F of models
Minimizers(gb, F) ==
  LET pen == [x \in F |-> Penalty(gb, x)]
      vals == {pen[x] : x \in F}
      best == CHOOSE v \in vals : \A w \in vals : v <= w
  IN {x \in F : pen[x] = best}

Optimal(gb) == Minimizers(gb, Feasible(gb))

\* ------------------------------------------------------------------ solver
\* what CpSolver.Solve can answer for the model built from gb
SolverOutcomes(gb) ==
  LET F == Feasible(gb) IN
    {[status |-> "OPTIMAL", x |-> x] : x \in Minimizers(gb, F)}
      \cup {[status |-> "FEASIBLE", x |-> x] : x \in F}
      \cup (IF F = {} THEN {[status |-> "INFEASIBLE", x |-> <<>>]} ELSE {})
      \cup {[status |-> "UNKNOWN", x |-> <<>>]}

\* the participants the decoder lists at table t of session s, in list order
SeatedAt(gb, x, s, t) ==
  SubSeqAt([i \in DOMAIN gb.participants |-> View(gb.participants[i])],
           {i \in DOMAIN gb.participants : t \in x[s + 1][gb.participants[i].id]})

\* session_data of _run_solver: tables is a defaultdict, so a table number is
\* a key only if somebody sits there
DecodeSession(gb, x, s) ==
  [session |-> s + 1,
   tables |-> [n \in {t + 1 : t \in {u \in TablesOf(gb) : SeatedAt(gb, x, s, u) # <<>>}}
                 |-> SeatedAt(gb, x, s, n - 1)]]

Decode(gb, x) == [k \in 1..gb.num_sessions |-> DecodeSession(gb, x, k - 1)]

ErrInfeasible == "No solution exists with the given constraints. Try fewer sessions or more tables."

ErrInvalid == "Internal error: Invalid constraint model."

ErrTimeout == "Solver timed out or encountered an unknown error."

\* _run_solver: the result dict for a solver answer (solve_time, num_branches
\* and num_conflicts are measurements of the run and are left out)
RunSolver(gb, out) ==
  IF out.status \in {"FEASIBLE", "OPTIMAL"}
  THEN [status |-> "success",
        solution_quality |-> IF out.status = "OPTIMAL" THEN "optimal" ELSE "feasible",
        total_deviation |-> Penalty(gb, out.x),
        assignments |-> Decode(gb, out.x)]
  ELSE IF out.status = "INFEASIBLE"
  THEN [status |-> "failure", error |-> ErrInfeasible]
  ELSE IF out.status = "MODEL_INVALID"
  THEN [status |-> "failure", error |-> ErrInvalid]
  ELSE [status |-> "failure", error |-> ErrTimeout]

\* ------------------------------------------------------ incremental helpers
\* next(p["id"] for p in self.participants if p["name"] == name)
FirstIdByName(participants, name) ==
  participants[CHOOSE i \in DOMAIN participants :
                 /\ participants[i].name = name
                 /\ \A j \in DOMAIN participants :
                      participants[j].name = name => i <= j].id

\* the (table number, participant view) pairs of one session in the order
\* "for table_num, participants in tables.items(): for p_data in participants"
SeatList(assignment) ==
  Concat([k \in 1..Cardinality(DOMAIN assignment.tables) |->
            LET n == SetToSeq(DOMAIN assignment.tables)[k] IN
              [m \in 1..Len(assignment.tables[n]) |-> <<n, assignment.tables[n][m]>>]])

\* the unordered index pairs (i < j) of one table list
TablePairs(list) == {ij \in (DOMAIN list) \X (DOMAIN list) : ij[1] < ij[2]}

\* _track_historical_pairings for one assignment
TrackHistoricalPairings(participants, assignment, batch_start, batch_end, historical) ==
  IF batch_start <= assignment.session - 1 /\ assignment.session - 1 < batch_end
  THEN historical \cup
       UNION {{PairKey("int",
                       FirstIdByName(participants, assignment.tables[n][ij[1]].name),
                       FirstIdByName(participants, assignment.tables[n][ij[2]].name)) :
                 ij \in TablePairs(assignment.tables[n])} :
              n \in DOMAIN assignment.tables}
  ELSE historical

\* locked[(id, s, t)] = True and locked[(id, s, other)] = False for one seat
LockSeat(locked, p_id, s, t, tables) ==
  [k \in DOMAIN locked \cup {<<p_id, s, u>> : u \in tables} |->
     IF k[1] = p_id /\ k[2] = s /\ k[3] \in tables THEN k[3] = t ELSE locked[k]]

RECURSIVE LockSeats(_, _, _, _, _)
LockSeats(locked, participants, seats, s, tables) ==
  IF seats = <<>> THEN locked
  ELSE LockSeats(LockSeat(locked, FirstIdByName(participants, Head(seats)[2].name),
                          s, Head(seats)[1] - 1, tables),
                 participants, Tail(seats), s, tables)

\* _lock_batch_assignments for one assignment
LockBatchAssignments(participants, assignment, locked, tables) ==
  LockSeats(locked, participants, SeatList(assignment), assignment.session - 1, tables)

RECURSIVE CommitBatch(_, _, _, _, _, _, _)
\* "for assignment in result['assignments']: track; lock": returns <<historical, locked>>
CommitBatch(participants, assignments, batch_start, batch_end, historical, locked, tables) ==
  IF assignments = <<>> THEN <<historical, locked>>
  ELSE CommitBatch(participants, Tail(assignments), batch_start, batch_end,
                   TrackHistoricalPairings(participants, Head(assignments),
                                           batch_start, batch_end, historical),
                   LockBatchAssignments(participants, Head(assignments), locked, tables),
                   tables)

\* ------------------------------------------------- regeneration helpers
\* an empty dict
EmptyMap == [k \in {} |-> 0]

\* _extract_pairings_from_sessions: pairs of names co-seated in a session other
\* than exclude_session
ExtractPairingsFromSessions(assignments, exclude_session) ==
  UNION {UNION {{PairKey("str", assignments[k].tables[n][ij[1]].name,
                                assignments[k].tables[n][ij[2]].name) :
                   ij \in TablePairs(assignments[k].tables[n])} :
                n \in DOMAIN assignments[k].tables} :
         k \in {m \in DOMAIN assignments : assignments[m].session # exclude_session}}

\* name_to_id = {p['name']: p['id'] for p in participant_dict}: the last
\* participant with a name gives its id
NameToId(participants, name) ==
  participants[CHOOSE i \in DOMAIN participants :
                 /\ participants[i].name = name
                 /\ \A j \in DOMAIN participants :
                      participants[j].name = name => j <= i].id

\* _extract_current_table_assignments: id -> 0-based table, the last seat
\* visited with that name winning
ExtractCurrentTableAssignments(session_assignment, participants) ==
  LET seats == SeatList(session_assignment)
      known == {m \in DOMAIN seats :
                  \E i \in DOMAIN participants : participants[i].name = seats[m][2].name}
      last(id) == CHOOSE m \in known :
                    /\ NameToId(participants, seats[m][2].name) = id
                    /\ \A q \in known :
                         NameToId(participants, seats[q][2].name) = id => q <= m
  IN [id \in {NameToId(participants, seats[m][2].name) : m \in known} |->
        seats[last(id)][1] - 1]

\* _get_active_participants
GetActiveParticipantsAll(all_participants, absent_names) == all_participants

GetActiveParticipants(all_participants, absent_names) ==
  SubSeqAt(all_participants,
           {i \in DOMAIN all_participants : all_participants[i].name \notin absent_names})

\* ------------------------------------------------------------- normalizer
\* The strings of an upload are sequences of characters.  None (and the NaN
\* of an empty cell) is a value of its own, different from the empty string.
NoneStr == <<"None">>

Falsy(s) == s = <<>> \/ s = NoneStr

Whitespace == {" "}

\* dangerous_chars of _sanitize_name; of its eleven characters the inputs
\* below use "<"
DangerousChars == {"<", ">", "&", "\"", "'", "/", "\\", "{", "}", "[", "]"}

\* max_length of _sanitize_name
NameMaxLength == 100

\* str.strip()
Strip(s) ==
  LET keep == {i \in DOMAIN s : s[i] \notin Whitespace}
  IN IF keep = {} THEN <<>>
     ELSE SubSeq(s, CHOOSE i \in keep : \A j \in keep : i <= j,
                    CHOOSE i \in keep : \A j \in keep : i >= j)

\* name.replace(char, "") for every dangerous character
RemoveDangerous(s) == SelectSeq(s, LAMBDA c : c \notin DangerousChars)

\* re.sub(r"\s+", " ", name): every run of whitespace becomes one space
CollapseWhitespace(s) ==
  LET kept == {i \in DOMAIN s : ~(s[i] \in Whitespace /\ i > 1 /\ s[i - 1] \in Whitespace)}
      t == SubSeqAt(s, kept)
  IN [k \in DOMAIN t |-> IF t[k] \in Whitespace THEN " " ELSE t[k]]

\* _sanitize_name
SanitizeName(name) ==
  IF Falsy(name) THEN <<>>
  ELSE LET collapsed == CollapseWhitespace(RemoveDangerous(Strip(name)))
       IN IF Len(collapsed) > NameMaxLength
          THEN Strip(SubSeq(collapsed, 1, NameMaxLength))
          ELSE collapsed

\* the lambda applied to the Partner column
SanitizePartner(x) == IF Falsy(x) THEN NoneStr ELSE SanitizeName(x)

\* transformed_participants of dataframe_to_participant_dict, before the
\* couple ids are assigned (couple_id None is 0)
TransformedParticipants(frame) ==
  [i \in DOMAIN frame |->
     P(i, SanitizeName(frame[i].Name), frame[i].Religion, frame[i].Gender,
       SanitizePartner(frame[i].Partner), 0)]

\* the first participant of data that is called name
FirstNamed(data, name) ==
  data[CHOOSE i \in DOMAIN data :
         /\ data[i].name = name
         /\ \A j \in DOMAIN data : data[j].name = name => i <= j]

\* the check _validate_partner_relationships makes of one participant
PartnerError(data, i) ==
  LET partner_name == data[i].partner
  IN IF Falsy(partner_name) THEN "ok"
     ELSE IF partner_name = data[i].name THEN "own partner"
     ELSE IF partner_name \notin {data[j].name : j \in DOMAIN data} THEN "partner not in list"
     ELSE IF FirstNamed(data, partner_name).partner # data[i].name THEN "asymmetric partnership"
     ELSE "ok"

\* _validate_partner_relationships: the ValueError of the first participant
\* that fails a check, "ok" when none does
ValidatePartnerRelationships(data) ==
  LET bad == {i \in DOMAIN data : PartnerError(data, i) # "ok"}
  IN IF bad = {} THEN "ok"
     ELSE PartnerError(data, CHOOSE i \in bad : \A j \in bad : i <= j)

\* tuple(sorted([name, partner])): two such tuples are equal exactly when the
\* sets of their elements are
CoupleKey(p) == {p.name, p.partner}

\* _assign_couple_ids, and the same loop at the end of
\* _roster_to_participant_list: the keys are numbered 1, 2, ... in the order
\* of their first row
AssignCoupleIds(data) ==
  LET coupled == {i \in DOMAIN data : ~Falsy(data[i].partner)}
      first(i) == CHOOSE j \in coupled :
                    /\ CoupleKey(data[j]) = CoupleKey(data[i])
                    /\ \A m \in coupled : CoupleKey(data[m]) = CoupleKey(data[i]) => j <= m
  IN [i \in DOMAIN data |->
        IF i \in coupled
        THEN [data[i] EXCEPT !.couple_id =
                Cardinality({first(j) : j \in {m \in coupled : first(m) <= first(i)}})]
        ELSE [data[i] EXCEPT !.couple_id = 0]]

\* _roster_to_participant_list; a roster document's id is its position in
\* docs, and partner_id None is 0
RosterToParticipantList(docs) ==
  AssignCoupleIds(
    [i \in DOMAIN docs |->
       P(i, docs[i].name, docs[i].religion, docs[i].gender,
         IF docs[i].partner_id # 0 /\ docs[i].partner_id \in DOMAIN docs
         THEN docs[docs[i].partner_id].name ELSE NoneStr,
         0)])

\* the uploads and rosters of the normalizer specification
MaxRows == 3

RawNames ==
  {NoneStr, <<"a">>, <<"b">>, <<"a", " ", "<">>, <<" ", "b">>, <<"<">>}

RawPartners == {NoneStr, <<"a">>, <<"b">>, <<"b", " ">>}

\* a sheet of 1..MaxRows rows
Frames ==
  UNION {[1..n -> [Name : RawNames, Partner : RawPartners,
                   Religion : {"Other"}, Gender : {"Other"}]] : n \in 1..MaxRows}

\* a roster of 1..MaxRows documents as upsert_participant stores them: a
\* stripped name that is not empty, and whatever partner_id the request gave
\* (MaxRows + 1 is the id of no document)
RosterDocs ==
  UNION {[1..n -> [name : {<<"a">>, <<"b">>}, religion : {"Other"}, gender : {"Other"},
                   partner_id : 0..(MaxRows + 1)]] : n \in 1..MaxRows}

\* ---------------------------------------------------------------- storage
\* MAX_RESULT_VERSIONS
MaxResultVersions == 5

\* calls of store_result for one session
MaxStores == 11

\* the data of a result, coded 1, 2
Payloads == {1, 2}

\* The version id f"v{n}" is the number n, and None is 0.  The keys of one
\* session: "result:{id}:versions" (a list of version_info, kept as the list
\* of their version ids), "result:{id}:v{n}" (results, a key being there when
\* n is in its domain) and "result:{id}:latest".  created_at is a clock
\* reading and is left out.
EmptyStorage == [versions |-> <<>>, results |-> <<>>, latest |-> 0]

NoneResult == [data |-> 0, version_id |-> 0]

NothingRetrieved == [asked |-> 0, result |-> NoneResult]

\* store_result(session_id, data) with version_id None: the storage after the
\* call
StoreResult(st, data) ==
  LET version_num == Len(st.versions) + 1
      with_new == [n \in (DOMAIN st.results) \cup {version_num} |->
                     IF n = version_num THEN [data |-> data, version_id |-> version_num]
                     ELSE st.results[n]]
      appended == Append(st.versions, version_num)
      prune == Len(appended) > MaxResultVersions
      old_versions == IF prune THEN SubSeq(appended, 1, Len(appended) - MaxResultVersions)
                      ELSE <<>>
      versions == IF prune
                  THEN SubSeq(appended, Len(appended) - MaxResultVersions + 1, Len(appended))
                  ELSE appended
  IN [versions |-> versions,
      results |-> [n \in (DOMAIN with_new) \ Range(old_versions) |-> with_new[n]],
      latest |-> version_num]

\* the version id store_result returns
StoreResultId(st) == Len(st.versions) + 1

\* get_result(session_id, version_id); there is no legacy key
GetResult(st, version) ==
  LET asked == IF version = 0 THEN st.latest ELSE version
  IN IF asked \in DOMAIN st.results THEN st.results[asked] ELSE NoneResult

\* store_result calls that were finished before the concurrent ones begin
MaxPriorStores == 5

\* the requests that call store_result at the same time
Threads == {1, 2}

\* the storage after n calls of store_result, one after the other
RECURSIVE StoredTimes(_)

StoredTimes(n) == IF n = 0 THEN EmptyStorage ELSE StoreResult(StoredTimes(n - 1), 1)

\* a call of store_result that has not begun
NotStarted ==
  [pc |-> "get_versions", versions |-> <<>>, version_id |-> 0, data |-> 0,
   old_versions |-> <<>>]

\* ----------------------------------------------------------------- roster
\* document ids of the roster collection (the participant_id of the path)
MaxIds == 3

NoRequest == [op |-> "none", participant_id |-> 0, existed |-> FALSE]

\* the request bodies of PUT /{participant_id}: a name, a partner_id that is
\* None (0) or any id, and a religion and a gender
PutBodies ==
  [name : {<<"a">>, <<" ">>}, religion : {"Other", "none"}, gender : {"Other"},
   partner_id : 0..MaxIds]

\* RosterService.upsert_participant: "ok" or the ValueError it raises
UpsertError(body) ==
  IF Strip(body.name) = <<>> THEN "name must not be empty"
  ELSE IF body.religion \notin {"Christian", "Jewish", "Muslim", "Other"} THEN "Invalid religion"
  ELSE IF body.gender \notin {"Male", "Female", "Other"} THEN "Invalid gender"
  ELSE "ok"

\* RosterService.upsert_participant: the collection after doc_ref.set(doc_data,
\* merge=True); updated_at is a clock reading and is left out
Upsert(coll, id, body) ==
  [n \in (DOMAIN coll) \cup {id} |->
     IF n = id
     THEN [name |-> Strip(body.name), religion |-> body.religion, gender |-> body.gender,
           partner_id |-> body.partner_id]
     ELSE coll[n]]

\* RosterService.delete_participant
Delete(coll, id) == [n \in (DOMAIN coll) \ {id} |-> coll[n]]

\* the upsert of the partner in the DELETE handler
ClearPartner(coll, id) ==
  IF id \in DOMAIN coll /\ coll[id].partner_id # 0
  THEN LET partner_id == coll[id].partner_id
       IN IF partner_id \in DOMAIN coll /\ coll[partner_id].partner_id = id
          THEN Upsert(coll, partner_id, [coll[partner_id] EXCEPT !.partner_id = 0])
          ELSE coll
  ELSE coll

\* ---------------------------------------------------------------- seating
\* participants at one table
MaxSeats == 4

\* the tables arrange_circular_seating is given: 1..MaxSeats participants
\* with different names
SeatingTables ==
  UNION {{[i \in 1..n |-> [name |-> i, religion |-> rel[i]]] :
            rel \in [1..n -> {"Christian", "Jewish", "Muslim"}]} : n \in 1..MaxSeats}

\* religion_groups[r], in the order of the list
ReligionGroup(ps, r) == SelectSeq(ps, LAMBDA q : q.religion = r)

\* the index of the first participant of religion r: the position of the key r
\* in religion_groups
FirstOfReligion(ps, r) ==
  CHOOSE i \in DOMAIN ps :
    /\ ps[i].religion = r
    /\ \A j \in DOMAIN ps : ps[j].religion = r => i <= j

\* sorted(religion_groups.values(), key=len, reverse=True): the sort is
\* stable, groups of one size stay in the order of their keys
SortedGroups(ps) ==
  LET rels == {ps[i].religion : i \in DOMAIN ps}
      before(a, b) ==
        \/ Len(ReligionGroup(ps, a)) > Len(ReligionGroup(ps, b))
        \/ /\ Len(ReligionGroup(ps, a)) = Len(ReligionGroup(ps, b))
           /\ FirstOfReligion(ps, a) < FirstOfReligion(ps, b)
      rank(r) == 1 + Cardinality({a \in rels : before(a, r)})
  IN [k \in 1..Cardinality(rels) |->
        ReligionGroup(ps, CHOOSE r \in rels : rank(r) = k)]

\* the participants one pass of the round-robin loop appends: the m-th of
\* every group that has one
RoundRobinPass(groups, m) ==
  LET has == {k \in DOMAIN groups : Len(groups[k]) >= m}
  IN [j \in 1..Cardinality(has) |-> groups[SetToSeq(has)[j]][m]]

\* arrange_circular_seating
ArrangeCircularSeating(ps) ==
  IF ps = <<>> THEN <<>>
  ELSE LET groups == SortedGroups(ps)
           result == Concat([m \in 1..Len(groups[1]) |-> RoundRobinPass(groups, m)])
       IN [i \in DOMAIN result |->
             [name |-> result[i].name, religion |-> result[i].religion, position |-> i - 1]]

\* -------------------------------------------------------------- objective
\* sessions and window sizes of the models whose objective is evaluated
MaxObjectiveSessions == 3

MaxWindow == 2

\* builders without locked seats, historical pairings or current-table map;
\* pairing_window_size 0 stands for an argument that is not given
ObjectiveBuilders ==
  {NewGroupBuilder(roster, T, S, EmptyMap, {}, EmptyMap, W, FALSE) :
     roster \in {RosterSameName, RosterPair}, T \in {1, 2},
     S \in 1..MaxObjectiveSessions, W \in 0..MaxWindow}

\* ------------------------------------------------------------------ state
VARIABLES
  participants,        \* session_data["participant_dict"]
  num_tables,          \* session_data["num_tables"]
  num_sessions,        \* session_data["num_sessions"]
  pc,                  \* position of the request being served
  batch_size,          \* generate_assignments_incremental: batch_size
  batch_start,         \* the loop variable of the batch loop
  locked,              \* locked: (id, s, t) -> bool
  historical_pairings, \* historical_pairings of the batch loop
  all_assignments,     \* all_assignments of the batch loop
  builder,             \* the GroupBuilder whose model was solved last
  last_x,              \* the values of its variables when it succeeded
  first_x,             \* per session, the variable values of the solve that produced it
  result,              \* the dict the last generate call returned
  solver_calls,        \* the solver invocations of the request being served
  stored,              \* assignments of the latest stored result version
  session_number,      \* regenerate_single_session: session_number
  absent_participants, \* regenerate_single_session: names in the request body
  assignments_unchanged,
  response,            \* what the regeneration endpoint answered
  df,                  \* the sheet dataframe_to_participant_dict is given
  roster_docs,         \* the documents get_roster returns
  tie_breaking,        \* whether the solver's choices are fixed, and those it made
  earlier_run,         \* a finished incremental run the current one is compared with
  storage,             \* the result keys of one session in the storage backend
  store_calls,         \* how many times store_result was called for the session
  version_id,          \* what the last store_result returned
  stored_data,         \* the data the last store_result was given
  retrieved,           \* what the last get_result was asked and returned
  collection,          \* the roster collection of the organization: id -> document
  last_request,        \* the roster request served last
  table,               \* the participants of one table, as a session lists them
  seating,             \* what arrange_circular_seating returned for them
  x_values,            \* values of the decision variables x[p, s, t] of a model
  penalty_count,       \* the value of the model's objective under them
  max_time_seconds,    \* the budget _calculate_batch_timeouts is given
  batch_timeouts,      \* the list it returned
  self_pairing_window_size,  \* self.pairing_window_size of the builder that is called
  store_threads        \* the locals of the store_result calls that run concurrently

vars ==
  <<participants, num_tables, num_sessions, pc, batch_size, batch_start, locked,
    historical_pairings, all_assignments, builder, last_x, first_x, result,
    solver_calls, stored, session_number, absent_participants,
    assignments_unchanged, response, df, roster_docs, tie_breaking, earlier_run,
    storage, store_calls, version_id, stored_data, retrieved, collection, last_request,
    table, seating, x_values, penalty_count, max_time_seconds, batch_timeouts,
    self_pairing_window_size, store_threads>>

\* what the generation and regeneration of a session leave alone
sideVars ==
  <<df, roster_docs, collection, last_request, table, seating, x_values, penalty_count,
    max_time_seconds, batch_timeouts, self_pairing_window_size, store_threads>>

storeVars == <<storage, store_calls, version_id, stored_data, retrieved>>

FreeSolver == [fixed |-> FALSE, seen |-> {}]

NoRun == [num_sessions |-> 0, all_assignments |-> <<>>]

sessionVars == <<participants, num_tables, num_sessions>>

loopVars == <<batch_size, batch_start, locked, historical_pairings, all_assignments>>

regenVars == <<session_number, absent_participants, assignments_unchanged, response>>

NoResult == [status |-> "none"]

NoBuilder == [participants |-> <<>>]

\* max_time_seconds of a request that does not give it: Query(120, ...)
DefaultMaxTime == 120

\* a session as the upload and roster endpoints create it: they answer 400 when
\* there are fewer participants than tables
Init ==
  /\ participants \in Rosters
  /\ num_tables \in 1..MaxTables
  /\ Len(participants) >= num_tables
  /\ num_sessions \in 1..MaxSessions
  /\ pc = "idle"
  /\ batch_size = 0
  /\ batch_start = 0
  /\ locked = EmptyMap
  /\ historical_pairings = {}
  /\ all_assignments = <<>>
  /\ builder = NoBuilder
  /\ last_x = <<>>
  /\ first_x = <<>>
  /\ result = NoResult
  /\ solver_calls = <<>>
  /\ stored = <<>>
  /\ session_number = 0
  /\ absent_participants = {}
  /\ assignments_unchanged = FALSE
  /\ response = NoResult
  /\ df = <<>>
  /\ roster_docs = <<>>
  /\ tie_breaking = FreeSolver
  /\ earlier_run = NoRun
  /\ collection = <<>>
  /\ last_request = NoRequest
  /\ table = <<>>
  /\ seating = <<>>
  /\ max_time_seconds = DefaultMaxTime
  /\ batch_timeouts = <<>>
  /\ self_pairing_window_size = DefaultPairingWindow
  /\ store_threads = <<>>
  /\ x_values = <<>>
  /\ penalty_count = 0
  /\ storage = EmptyStorage
  /\ store_calls = 0
  /\ version_id = 0
  /\ stored_data = 0
  /\ retrieved = NothingRetrieved

\* _calculate_batch_timeouts: the time limit of the batch with 0-based index
\* batch_idx.  The values are floats in the code; with max_time_seconds = 120
\* and up to 7 batches every quotient is a whole number, so the integer
\* quotients below are the exact values.
BatchTimeout(total_sessions, size, budget, batch_idx) ==
  LET num_batches == (total_sessions + size - 1) \div size
      first_batch_time == budget \div 2
      remaining_time == budget - first_batch_time
  IN IF num_batches = 1 THEN budget
     ELSE IF batch_idx = 0 THEN first_batch_time
     ELSE remaining_time \div (num_batches - 1)

\* _calculate_batch_timeouts: the list it returns; max_time_seconds is a
\* multiple of 120 and there are at most 7 batches, so every slice is a whole
\* number
BatchTimeoutsEven(total_sessions, size, budget) ==
  [k \in 1..((total_sessions + size - 1) \div size) |->
     budget \div ((total_sessions + size - 1) \div size)]

BatchTimeouts(total_sessions, size, budget) ==
  [k \in 1..((total_sessions + size - 1) \div size) |->
     BatchTimeout(total_sessions, size, budget, k - 1)]

\* the arguments of the calls of _calculate_batch_timeouts that are examined
MaxTimeoutSessions == 6

Budgets == {120, 240}

\* The solver under fixed tie-breaking: the same model under the same time
\* limit gets the same answer, and a search that ended before its limit
\* (OPTIMAL, INFEASIBLE) ends the same way under every longer limit.  A search
\* cut off by its limit (FEASIBLE, UNKNOWN) says nothing about a longer one.
\* With tie-breaking not fixed every answer of SolverOutcomes is possible.
SameTieBreaking(tb, gb, limit, out) ==
  tb.fixed =>
    \A e \in tb.seen :
      e.gb = gb =>
        /\ e.limit = limit => out = e.out
        /\ (e.limit < limit /\ e.out.status \in {"OPTIMAL", "INFEASIBLE"}) => out = e.out
        /\ (e.limit > limit /\ out.status \in {"OPTIMAL", "INFEASIBLE"}) => out = e.out

Remember(tb, gb, limit, out) ==
  IF tb.fixed
  THEN [tb EXCEPT !.seen = @ \cup {[gb |-> gb, limit |-> limit, out |-> out]}]
  ELSE tb

\* one solver invocation, as recorded in solver_calls: which model, what it
\* came to, and solver.parameters.max_time_in_seconds
Call(kind, res, limit) ==
  [kind |-> kind,
   outcome |-> IF res.status = "success" THEN "success" ELSE res.error,
   limit |-> limit]

\* ----------------------------------------------------------- generation
\* self.generate_assignments() of the builder GroupBuilder(participants, T, S)
GenerateAssignments ==
  /\ pc = "idle"
  /\ LET gb == NewGroupBuilder(participants, num_tables, num_sessions,
                               EmptyMap, {}, EmptyMap, self_pairing_window_size, FALSE)
     IN \E out \in SolverOutcomes(gb) :
          /\ builder' = gb
          /\ result' = RunSolver(gb, out)
          /\ last_x' = out.x
          /\ first_x' = out.x
          /\ solver_calls' = <<Call("full", RunSolver(gb, out), DefaultMaxTime)>>
  /\ pc' = "returned"
  /\ UNCHANGED <<sideVars, storeVars, tie_breaking, earlier_run, sessionVars, loopVars, stored, regenVars>>

\* generate_assignments_incremental, lines 122-132
StartIncremental ==
  /\ pc = "idle"
  /\ \E b \in 1..MaxBatch : batch_size' = b
  /\ batch_start' = 0
  /\ locked' = EmptyMap
  /\ historical_pairings' = {}
  /\ all_assignments' = <<>>
  /\ solver_calls' = <<>>
  /\ pc' = "batch"
  /\ UNCHANGED <<sideVars, storeVars, tie_breaking, earlier_run, sessionVars, builder, last_x, first_x, result, stored, regenVars>>

\* the dict returned after the last batch; its total_deviation is None
CombinedResult(assignments) ==
  [status |-> "success",
   solution_quality |-> "incremental",
   total_deviation |-> "None",
   assignments |-> assignments]

BatchAssignmentsAll(assignments, start, end) == assignments

\* batch_assignments: the sessions of result["assignments"] in the batch
BatchAssignments(assignments, start, end) ==
  SubSeqAt(assignments,
           {k \in DOMAIN assignments :
              start <= assignments[k].session - 1 /\ assignments[k].session - 1 < end})

\* "if result['status'] != 'success': return result"
FailureReturnPartial(res, assignments) ==
  [status |-> "failure", error |-> res.error, assignments |-> assignments]

FailureReturn(res, assignments) == res

\* one iteration of the batch loop (lines 140-195), with the return that
\* follows the last iteration (lines 201-210)
SolveBatch ==
  /\ pc = "batch"
  /\ batch_start < num_sessions
  /\ LET batch_end == Min2(batch_start + batch_size, num_sessions)
         gb == NewGroupBuilder(participants, num_tables, batch_end,
                               locked, historical_pairings, EmptyMap, 0, FALSE)
         batch_timeout == BatchTimeout(num_sessions, batch_size, DefaultMaxTime,
                                       batch_start \div batch_size)
     IN \E out \in SolverOutcomes(gb) :
          LET res == RunSolver(gb, out) IN
            /\ SameTieBreaking(tie_breaking, gb, batch_timeout, out)
            /\ tie_breaking' = Remember(tie_breaking, gb, batch_timeout, out)
            /\ builder' = gb
            /\ solver_calls' = Append(solver_calls, Call("batch", res, batch_timeout))
            /\ IF res.status # "success"
               THEN /\ result' = FailureReturn(res, all_assignments)
                    /\ pc' = "returned"
                    /\ UNCHANGED <<loopVars, last_x, first_x>>
               ELSE LET batch == BatchAssignments(res.assignments, batch_start, batch_end)
                        committed == CommitBatch(participants, res.assignments, batch_start,
                                                 batch_end, historical_pairings, locked,
                                                 TablesOf(gb))
                    IN /\ all_assignments' = all_assignments \o batch
                       /\ historical_pairings' = committed[1]
                       /\ locked' = committed[2]
                       /\ last_x' = out.x
                       /\ first_x' = first_x \o SubSeq(out.x, batch_start + 1, batch_end)
                       /\ batch_start' = batch_start + batch_size
                       /\ batch_size' = batch_size
                       /\ IF batch_start + batch_size < num_sessions
                          THEN /\ pc' = "batch"
                               /\ result' = result
                          ELSE /\ pc' = "returned"
                               /\ result' = CombinedResult(all_assignments \o batch)
  /\ UNCHANGED <<sideVars, storeVars, earlier_run, sessionVars, stored, regenVars>>

\* _generate_assignments_internal, lines 132-169: a failure is answered with
\* HTTP 400, a success is stored as the latest version
StoreGenerated ==
  /\ pc = "returned"
  /\ result.status = "success"
  /\ stored' = result.assignments
  /\ pc' = "stored"
  \* the locals of the finished request are gone
  /\ batch_size' = 0
  /\ batch_start' = 0
  /\ locked' = EmptyMap
  /\ historical_pairings' = {}
  /\ all_assignments' = <<>>
  /\ builder' = NoBuilder
  /\ last_x' = <<>>
  /\ first_x' = <<>>
  /\ result' = NoResult
  /\ solver_calls' = <<>>
  /\ UNCHANGED <<sideVars, storeVars, tie_breaking, earlier_run, sessionVars, regenVars>>

GenerateFailed ==
  /\ pc = "returned"
  /\ result.status # "success"
  /\ response' = [status_code |-> 400, detail |-> result.error]
  /\ pc' = "http_error"
  /\ UNCHANGED <<sideVars, storeVars, tie_breaking, earlier_run, sessionVars, loopVars, builder, last_x, first_x, result,
                 solver_calls, stored, session_number, absent_participants,
                 assignments_unchanged>>

\* --------------------------------------------- regenerate_single_session
\* the GroupBuilder of attempt 1 (require_different = TRUE) and of attempt 2
RegenBuilder(k, absent, hard) ==
  NewGroupBuilder(GetActiveParticipants(participants, absent), num_tables, 1,
                  EmptyMap, ExtractPairingsFromSessions(stored, k),
                  ExtractCurrentTableAssignments(stored[k], participants),
                  0, hard)

\* lines 386-420: merge the new session into a copy of the existing
\* assignments, store it as the latest version and answer
MergedAssignmentsFresh(existing, k, absent, res) ==
  [m \in DOMAIN existing |-> [session |-> m,
                              tables |-> res.assignments[1].tables,
                              absentParticipants |-> absent]]

MergedAssignments(existing, k, absent, res) ==
  [existing EXCEPT ![k] = [session |-> k,
                           tables |-> res.assignments[1].tables,
                           absentParticipants |-> absent]]

RegenResponseNoFlag(new_assignments, k, res, unchanged) ==
  [status_code |-> 200,
   assignments |-> new_assignments,
   session |-> k,
   quality |-> res.solution_quality,
   assignments_unchanged |-> FALSE]

RegenResponse(new_assignments, k, res, unchanged) ==
  [status_code |-> 200,
   assignments |-> new_assignments,
   session |-> k,
   quality |-> res.solution_quality,
   assignments_unchanged |-> unchanged]

\* the requests that pass the checks of lines 280-321
RegenRequestOK(k, absent) ==
  /\ k <= num_sessions
  /\ stored # <<>>
  /\ Len(GetActiveParticipants(participants, absent)) >= num_tables

\* lines 265-321 answering 400 or 404
RegenRejected ==
  /\ pc = "stored"
  /\ \E k \in 1..(num_sessions + 1), absent \in SUBSET Names :
       /\ Cardinality(absent) <= MaxAbsent
       /\ ~RegenRequestOK(k, absent)
       /\ session_number' = k
       /\ absent_participants' = absent
       /\ response' = [status_code |-> 400,
                       detail |-> IF k > num_sessions THEN "Invalid session number"
                                  ELSE "Not enough active participants"]
  /\ solver_calls' = <<>>
  /\ pc' = "regen_error"
  /\ UNCHANGED <<sideVars, storeVars, tie_breaking, earlier_run, sessionVars, loopVars, builder, last_x, first_x, result, stored,
                 assignments_unchanged>>

\* lines 265-345, and lines 378-420 when attempt 1 succeeds
RegenHard ==
  /\ pc = "stored"
  /\ \E k \in 1..(num_sessions + 1), absent \in SUBSET Names :
       /\ Cardinality(absent) <= MaxAbsent
       /\ RegenRequestOK(k, absent)
       /\ session_number' = k
       /\ absent_participants' = absent
       /\ LET gb == RegenBuilder(k, absent, TRUE)
          IN \E out \in SolverOutcomes(gb) :
               LET res == RunSolver(gb, out) IN
                 /\ builder' = gb
                 /\ last_x' = out.x
                 /\ result' = res
                 /\ solver_calls' = <<Call("hard", res, DefaultMaxTime)>>
                 /\ assignments_unchanged' = FALSE
                 /\ IF res.status = "success"
                    THEN /\ stored' = MergedAssignments(stored, k, absent, res)
                         /\ response' = RegenResponse(stored', k, res, FALSE)
                         /\ pc' = "regen_done"
                    ELSE /\ pc' = "regen_fallback"
                         /\ UNCHANGED <<stored, response>>
  /\ UNCHANGED <<sideVars, storeVars, tie_breaking, earlier_run, sessionVars, loopVars, first_x>>

\* lines 347-376, and lines 378-420 when attempt 2 succeeds
RegenSoft ==
  /\ pc = "regen_fallback"
  /\ LET gb == RegenBuilder(session_number, absent_participants, FALSE)
     IN \E out \in SolverOutcomes(gb) :
          LET res == RunSolver(gb, out) IN
            /\ builder' = gb
            /\ last_x' = out.x
            /\ result' = res
            /\ solver_calls' = Append(solver_calls, Call("soft", res, DefaultMaxTime))
            /\ IF res.status = "success"
               THEN /\ assignments_unchanged' = TRUE
                    /\ stored' = MergedAssignments(stored, session_number,
                                                   absent_participants, res)
                    /\ response' = RegenResponse(stored', session_number, res, TRUE)
                    /\ pc' = "regen_done"
               ELSE /\ response' = [status_code |-> 400, detail |-> res.error]
                    /\ pc' = "regen_error"
                    /\ UNCHANGED <<stored, assignments_unchanged>>
  /\ UNCHANGED <<sideVars, storeVars, tie_breaking, earlier_run, sessionVars, loopVars, first_x, session_number, absent_participants>>

Next ==
  \/ GenerateAssignments
  \/ StartIncremental
  \/ SolveBatch
  \/ StoreGenerated
  \/ GenerateFailed

Spec == Init /\ [][Next]_vars

\* generation followed by one single-session regeneration of the stored result
FullNext ==
  \/ GenerateAssignments
  \/ StartIncremental
  \/ SolveBatch
  \/ StoreGenerated
  \/ GenerateFailed
  \/ RegenRejected
  \/ RegenHard
  \/ RegenSoft

FullSpec == Init /\ [][FullNext]_vars

\* ------------------------------------------------------------- normalizer
\* a sheet about to be normalized, or a roster about to be converted
IntakeInit ==
  /\ \/ df \in Frames /\ roster_docs = <<>> /\ pc = "upload"
     \/ roster_docs \in RosterDocs /\ df = <<>> /\ pc = "roster"
  /\ participants = <<>>
  /\ num_tables = 1
  /\ num_sessions = 1
  /\ batch_size = 0
  /\ batch_start = 0
  /\ locked = EmptyMap
  /\ historical_pairings = {}
  /\ all_assignments = <<>>
  /\ builder = NoBuilder
  /\ last_x = <<>>
  /\ first_x = <<>>
  /\ result = NoResult
  /\ solver_calls = <<>>
  /\ stored = <<>>
  /\ session_number = 0
  /\ absent_participants = {}
  /\ assignments_unchanged = FALSE
  /\ response = NoResult
  /\ tie_breaking = FreeSolver
  /\ earlier_run = NoRun
  /\ collection = <<>>
  /\ last_request = NoRequest
  /\ table = <<>>
  /\ seating = <<>>
  /\ max_time_seconds = DefaultMaxTime
  /\ batch_timeouts = <<>>
  /\ self_pairing_window_size = DefaultPairingWindow
  /\ store_threads = <<>>
  /\ x_values = <<>>
  /\ penalty_count = 0
  /\ storage = EmptyStorage
  /\ store_calls = 0
  /\ version_id = 0
  /\ stored_data = 0
  /\ retrieved = NothingRetrieved

\* dataframe_to_participant_dict(df): the participant list, or the ValueError
\* of _validate_partner_relationships
DataframeToParticipantDict ==
  /\ pc = "upload"
  /\ LET data == TransformedParticipants(df)
         err == ValidatePartnerRelationships(data)
     IN IF err = "ok"
        THEN /\ participants' = AssignCoupleIds(data)
             /\ pc' = "normalized"
             /\ UNCHANGED response
        ELSE /\ response' = [status |-> "ValueError", error |-> err]
             /\ pc' = "rejected"
             /\ UNCHANGED participants
  /\ UNCHANGED <<sideVars, storeVars, tie_breaking, earlier_run, num_tables, num_sessions, loopVars, builder, last_x, first_x,
                 result, solver_calls, stored, session_number, absent_participants,
                 assignments_unchanged>>

\* generate_from_roster: participant_list = _roster_to_participant_list(...)
ConvertRoster ==
  /\ pc = "roster"
  /\ participants' = RosterToParticipantList(roster_docs)
  /\ pc' = "converted"
  /\ UNCHANGED <<sideVars, storeVars, tie_breaking, earlier_run, num_tables, num_sessions, loopVars, builder, last_x, first_x,
                 result, solver_calls, stored, regenVars>>

IntakeNext ==
  \/ DataframeToParticipantDict
  \/ ConvertRoster

IntakeSpec == IntakeInit /\ [][IntakeNext]_vars

\* ---------------------------------------------------------------- two runs
\* two calls of generate_assignments_incremental for the same roster, number
\* of tables and batch size, under the same tie-breaking of the solver
TwoRunInit ==
  /\ participants \in Rosters
  /\ num_tables \in 1..MaxTables
  /\ Len(participants) >= num_tables
  /\ num_sessions \in 1..MaxSessions
  /\ pc = "idle"
  /\ batch_size = 0
  /\ batch_start = 0
  /\ locked = EmptyMap
  /\ historical_pairings = {}
  /\ all_assignments = <<>>
  /\ builder = NoBuilder
  /\ last_x = <<>>
  /\ first_x = <<>>
  /\ result = NoResult
  /\ solver_calls = <<>>
  /\ stored = <<>>
  /\ session_number = 0
  /\ absent_participants = {}
  /\ assignments_unchanged = FALSE
  /\ response = NoResult
  /\ df = <<>>
  /\ roster_docs = <<>>
  /\ tie_breaking = [fixed |-> TRUE, seen |-> {}]
  /\ earlier_run = NoRun
  /\ collection = <<>>
  /\ last_request = NoRequest
  /\ table = <<>>
  /\ seating = <<>>
  /\ max_time_seconds = DefaultMaxTime
  /\ batch_timeouts = <<>>
  /\ self_pairing_window_size = DefaultPairingWindow
  /\ store_threads = <<>>
  /\ x_values = <<>>
  /\ penalty_count = 0
  /\ storage = EmptyStorage
  /\ store_calls = 0
  /\ version_id = 0
  /\ stored_data = 0
  /\ retrieved = NothingRetrieved

\* GroupBuilder(participants, T, S0 + dS).generate_assignments_incremental(B),
\* lines 122-132, called once the run with S0 sessions has returned
SecondRun ==
  /\ pc = "returned"
  /\ batch_size > 0
  /\ earlier_run = NoRun
  /\ \E total_sessions \in (num_sessions + 1)..MaxSessions : num_sessions' = total_sessions
  /\ earlier_run' = [num_sessions |-> num_sessions, all_assignments |-> all_assignments]
  /\ batch_size' = batch_size
  /\ batch_start' = 0
  /\ locked' = EmptyMap
  /\ historical_pairings' = {}
  /\ all_assignments' = <<>>
  /\ builder' = NoBuilder
  /\ last_x' = <<>>
  /\ first_x' = <<>>
  /\ result' = NoResult
  /\ solver_calls' = <<>>
  /\ pc' = "batch"
  /\ UNCHANGED <<sideVars, storeVars, tie_breaking, participants, num_tables, stored, regenVars>>

TwoRunNext ==
  \/ StartIncremental
  \/ SolveBatch
  \/ SecondRun

TwoRunSpec == TwoRunInit /\ [][TwoRunNext]_vars

\* ---------------------------------------------------------------- storage
\* a session without results
StorageInit ==
  /\ participants = <<>>
  /\ num_tables = 1
  /\ num_sessions = 1
  /\ pc = "no_result"
  /\ batch_size = 0
  /\ batch_start = 0
  /\ locked = EmptyMap
  /\ historical_pairings = {}
  /\ all_assignments = <<>>
  /\ builder = NoBuilder
  /\ last_x = <<>>
  /\ first_x = <<>>
  /\ result = NoResult
  /\ solver_calls = <<>>
  /\ stored = <<>>
  /\ session_number = 0
  /\ absent_participants = {}
  /\ assignments_unchanged = FALSE
  /\ response = NoResult
  /\ df = <<>>
  /\ roster_docs = <<>>
  /\ tie_breaking = FreeSolver
  /\ earlier_run = NoRun
  /\ collection = <<>>
  /\ last_request = NoRequest
  /\ table = <<>>
  /\ seating = <<>>
  /\ max_time_seconds = DefaultMaxTime
  /\ batch_timeouts = <<>>
  /\ self_pairing_window_size = DefaultPairingWindow
  /\ store_threads = <<>>
  /\ x_values = <<>>
  /\ penalty_count = 0
  /\ storage = EmptyStorage
  /\ store_calls = 0
  /\ version_id = 0
  /\ stored_data = 0
  /\ retrieved = NothingRetrieved

\* version_id = store_result(session_id, data)
CallStoreResult ==
  /\ pc \in {"no_result", "result_stored", "result_read"}
  /\ store_calls < MaxStores
  /\ \E data \in Payloads :
       /\ storage' = StoreResult(storage, data)
       /\ stored_data' = data
  /\ version_id' = StoreResultId(storage)
  /\ store_calls' = store_calls + 1
  /\ pc' = "result_stored"
  /\ UNCHANGED <<sideVars, tie_breaking, earlier_run, sessionVars, loopVars, builder,
                 last_x, first_x, result, solver_calls, stored, regenVars, retrieved>>

\* get_result(session_id, version) right after a store_result; version 0 asks
\* for the latest
CallGetResult ==
  /\ pc = "result_stored"
  /\ \E version \in 0..MaxStores :
       retrieved' = [asked |-> version, result |-> GetResult(storage, version)]
  /\ pc' = "result_read"
  /\ UNCHANGED <<sideVars, tie_breaking, earlier_run, sessionVars, loopVars, builder,
                 last_x, first_x, result, solver_calls, stored, regenVars,
                 storage, store_calls, version_id, stored_data>>

StorageNext ==
  \/ CallStoreResult
  \/ CallGetResult

StorageSpec == StorageInit /\ [][StorageNext]_vars

\* ----------------------------------------------------------------- roster
\* an organization with an empty roster
RosterInit ==
  /\ participants = <<>>
  /\ num_tables = 1
  /\ num_sessions = 1
  /\ pc = "roster_empty"
  /\ batch_size = 0
  /\ batch_start = 0
  /\ locked = EmptyMap
  /\ historical_pairings = {}
  /\ all_assignments = <<>>
  /\ builder = NoBuilder
  /\ last_x = <<>>
  /\ first_x = <<>>
  /\ result = NoResult
  /\ solver_calls = <<>>
  /\ stored = <<>>
  /\ session_number = 0
  /\ absent_participants = {}
  /\ assignments_unchanged = FALSE
  /\ response = NoResult
  /\ df = <<>>
  /\ roster_docs = <<>>
  /\ tie_breaking = FreeSolver
  /\ earlier_run = NoRun
  /\ collection = <<>>
  /\ last_request = NoRequest
  /\ table = <<>>
  /\ seating = <<>>
  /\ max_time_seconds = DefaultMaxTime
  /\ batch_timeouts = <<>>
  /\ self_pairing_window_size = DefaultPairingWindow
  /\ store_threads = <<>>
  /\ x_values = <<>>
  /\ penalty_count = 0
  /\ storage = EmptyStorage
  /\ store_calls = 0
  /\ version_id = 0
  /\ stored_data = 0
  /\ retrieved = NothingRetrieved

RosterPositions == {"roster_empty", "upserted", "rejected", "deleted"}

\* PUT /{participant_id}
UpsertParticipant ==
  /\ pc \in RosterPositions
  /\ \E id \in 1..MaxIds, body \in PutBodies :
       /\ last_request' = [op |-> "PUT", participant_id |-> id, existed |-> id \in DOMAIN collection]
       /\ IF UpsertError(body) = "ok"
          THEN /\ collection' = Upsert(collection, id, body)
               /\ pc' = "upserted"
          ELSE /\ collection' = collection
               /\ pc' = "rejected"
  /\ UNCHANGED <<df, roster_docs, table, seating, x_values, penalty_count,
                 max_time_seconds, batch_timeouts, self_pairing_window_size, store_threads, storeVars, tie_breaking, earlier_run, sessionVars, loopVars,
                 builder, last_x, first_x, result, solver_calls, stored, regenVars>>

\* DELETE /{participant_id}
DeleteParticipant ==
  /\ pc \in RosterPositions
  /\ \E id \in 1..MaxIds :
       /\ last_request' = [op |-> "DELETE", participant_id |-> id, existed |-> id \in DOMAIN collection]
       /\ collection' = Delete(ClearPartner(collection, id), id)
  /\ pc' = "deleted"
  /\ UNCHANGED <<df, roster_docs, table, seating, x_values, penalty_count,
                 max_time_seconds, batch_timeouts, self_pairing_window_size, store_threads, storeVars, tie_breaking, earlier_run, sessionVars, loopVars,
                 builder, last_x, first_x, result, solver_calls, stored, regenVars>>

RosterNext ==
  \/ UpsertParticipant
  \/ DeleteParticipant

RosterSpec == RosterInit /\ [][RosterNext]_vars

\* ---------------------------------------------------------------- seating
\* a table of a session about to be arranged
SeatingInit ==
  /\ participants = <<>>
  /\ num_tables = 1
  /\ num_sessions = 1
  /\ pc = "table"
  /\ batch_size = 0
  /\ batch_start = 0
  /\ locked = EmptyMap
  /\ historical_pairings = {}
  /\ all_assignments = <<>>
  /\ builder = NoBuilder
  /\ last_x = <<>>
  /\ first_x = <<>>
  /\ result = NoResult
  /\ solver_calls = <<>>
  /\ stored = <<>>
  /\ session_number = 0
  /\ absent_participants = {}
  /\ assignments_unchanged = FALSE
  /\ response = NoResult
  /\ df = <<>>
  /\ roster_docs = <<>>
  /\ tie_breaking = FreeSolver
  /\ earlier_run = NoRun
  /\ collection = <<>>
  /\ last_request = NoRequest
  /\ table \in SeatingTables
  /\ seating = <<>>
  /\ max_time_seconds = DefaultMaxTime
  /\ batch_timeouts = <<>>
  /\ self_pairing_window_size = DefaultPairingWindow
  /\ store_threads = <<>>
  /\ x_values = <<>>
  /\ penalty_count = 0
  /\ storage = EmptyStorage
  /\ store_calls = 0
  /\ version_id = 0
  /\ stored_data = 0
  /\ retrieved = NothingRetrieved

\* arranged = arrange_circular_seating(table)
Arrange ==
  /\ pc = "table"
  /\ seating' = ArrangeCircularSeating(table)
  /\ pc' = "arranged"
  /\ UNCHANGED <<df, roster_docs, collection, last_request, table, x_values, penalty_count,
                 max_time_seconds, batch_timeouts, self_pairing_window_size, store_threads, storeVars, tie_breaking,
                 earlier_run, sessionVars, loopVars, builder, last_x, first_x, result,
                 solver_calls, stored, regenVars>>

SeatingNext == Arrange

SeatingSpec == SeatingInit /\ [][SeatingNext]_vars

\* -------------------------------------------------------------- objective
\* a model and values of its variables that satisfy exactly-one-table
ObjectiveInit ==
  /\ participants = <<>>
  /\ num_tables = 1
  /\ num_sessions = 1
  /\ pc = "model"
  /\ batch_size = 0
  /\ batch_start = 0
  /\ locked = EmptyMap
  /\ historical_pairings = {}
  /\ all_assignments = <<>>
  /\ builder \in ObjectiveBuilders
  /\ x_values \in [1..builder.num_sessions -> SessionCandidates(builder)]
  /\ penalty_count = 0
  /\ last_x = <<>>
  /\ first_x = <<>>
  /\ result = NoResult
  /\ solver_calls = <<>>
  /\ stored = <<>>
  /\ session_number = 0
  /\ absent_participants = {}
  /\ assignments_unchanged = FALSE
  /\ response = NoResult
  /\ df = <<>>
  /\ roster_docs = <<>>
  /\ tie_breaking = FreeSolver
  /\ earlier_run = NoRun
  /\ collection = <<>>
  /\ last_request = NoRequest
  /\ table = <<>>
  /\ seating = <<>>
  /\ max_time_seconds = DefaultMaxTime
  /\ batch_timeouts = <<>>
  /\ self_pairing_window_size = DefaultPairingWindow
  /\ store_threads = <<>>
  /\ storage = EmptyStorage
  /\ store_calls = 0
  /\ version_id = 0
  /\ stored_data = 0
  /\ retrieved = NothingRetrieved

\* _add_objective_functions_to_model: the value of penalty_count under the
\* values of the variables
AddObjective ==
  /\ pc = "model"
  /\ penalty_count' = Penalty(builder, x_values)
  /\ pc' = "objective"
  /\ UNCHANGED <<df, roster_docs, collection, last_request, table, seating, x_values,
                 max_time_seconds, batch_timeouts, self_pairing_window_size, store_threads, storeVars, tie_breaking, earlier_run, sessionVars, loopVars, builder, last_x,
                 first_x, result, solver_calls, stored, regenVars>>

ObjectiveNext == AddObjective

ObjectiveSpec == ObjectiveInit /\ [][ObjectiveNext]_vars

\* --------------------------------------------------------------- timeouts
\* generate_assignments_incremental(batch_size, max_time_seconds) of a builder
\* with num_sessions sessions, before line 131
TimeoutInit ==
  /\ participants = <<>>
  /\ num_tables = 1
  /\ num_sessions \in 1..MaxTimeoutSessions
  /\ pc = "budget"
  /\ batch_size \in 1..MaxTimeoutSessions
  /\ max_time_seconds \in Budgets
  /\ batch_timeouts = <<>>
  /\ self_pairing_window_size = DefaultPairingWindow
  /\ store_threads = <<>>
  /\ batch_start = 0
  /\ locked = EmptyMap
  /\ historical_pairings = {}
  /\ all_assignments = <<>>
  /\ builder = NoBuilder
  /\ x_values = <<>>
  /\ penalty_count = 0
  /\ last_x = <<>>
  /\ first_x = <<>>
  /\ result = NoResult
  /\ solver_calls = <<>>
  /\ stored = <<>>
  /\ session_number = 0
  /\ absent_participants = {}
  /\ assignments_unchanged = FALSE
  /\ response = NoResult
  /\ df = <<>>
  /\ roster_docs = <<>>
  /\ tie_breaking = FreeSolver
  /\ earlier_run = NoRun
  /\ collection = <<>>
  /\ last_request = NoRequest
  /\ table = <<>>
  /\ seating = <<>>
  /\ storage = EmptyStorage
  /\ store_calls = 0
  /\ version_id = 0
  /\ stored_data = 0
  /\ retrieved = NothingRetrieved

\* batch_timeouts = self._calculate_batch_timeouts(total_sessions, batch_size,
\* max_time_seconds)
CalculateBatchTimeouts ==
  /\ pc = "budget"
  /\ batch_timeouts' = BatchTimeouts(num_sessions, batch_size, max_time_seconds)
  /\ pc' = "budget_split"
  /\ UNCHANGED <<df, roster_docs, collection, last_request, table, seating, x_values,
                 penalty_count, max_time_seconds, self_pairing_window_size, store_threads, storeVars,
                 tie_breaking, earlier_run,
                 sessionVars, loopVars, builder, last_x, first_x, result, solver_calls,
                 stored, regenVars>>

TimeoutNext == CalculateBatchTimeouts

TimeoutSpec == TimeoutInit /\ [][TimeoutNext]_vars

\* ---------------------------------------------------------- pairing window
\* a builder GroupBuilder(participants, T, S, pairing_window_size=W), or one
\* built without the argument, before one of its two methods is called
WindowInit ==
  /\ participants \in Rosters
  /\ num_tables \in 1..MaxTables
  /\ Len(participants) >= num_tables
  /\ num_sessions \in 1..MaxSessions
  /\ pc = "idle"
  /\ batch_size = 0
  /\ batch_start = 0
  /\ locked = EmptyMap
  /\ historical_pairings = {}
  /\ all_assignments = <<>>
  /\ builder = NoBuilder
  /\ last_x = <<>>
  /\ first_x = <<>>
  /\ result = NoResult
  /\ solver_calls = <<>>
  /\ stored = <<>>
  /\ session_number = 0
  /\ absent_participants = {}
  /\ assignments_unchanged = FALSE
  /\ response = NoResult
  /\ df = <<>>
  /\ roster_docs = <<>>
  /\ tie_breaking = FreeSolver
  /\ earlier_run = NoRun
  /\ collection = <<>>
  /\ last_request = NoRequest
  /\ table = <<>>
  /\ seating = <<>>
  /\ max_time_seconds = DefaultMaxTime
  /\ batch_timeouts = <<>>
  /\ self_pairing_window_size \in (1..MaxWindow) \cup {DefaultPairingWindow}
  /\ store_threads = <<>>
  /\ x_values = <<>>
  /\ penalty_count = 0
  /\ storage = EmptyStorage
  /\ store_calls = 0
  /\ version_id = 0
  /\ stored_data = 0
  /\ retrieved = NothingRetrieved

WindowNext ==
  \/ GenerateAssignments
  \/ StartIncremental
  \/ SolveBatch

WindowSpec == WindowInit /\ [][WindowNext]_vars

\* ------------------------------------------------- concurrent store_result
\* Two requests for one session are about to call store_result(session_id,
\* data); the storage holds what earlier calls left.  Every storage.get, .set
\* and .delete is one step; the values read are copies (json.loads of the
\* Upstash and Redis backends).
ConcurrentInit ==
  /\ participants = <<>>
  /\ num_tables = 1
  /\ num_sessions = 1
  /\ pc = "concurrent"
  /\ batch_size = 0
  /\ batch_start = 0
  /\ locked = EmptyMap
  /\ historical_pairings = {}
  /\ all_assignments = <<>>
  /\ builder = NoBuilder
  /\ last_x = <<>>
  /\ first_x = <<>>
  /\ result = NoResult
  /\ solver_calls = <<>>
  /\ stored = <<>>
  /\ session_number = 0
  /\ absent_participants = {}
  /\ assignments_unchanged = FALSE
  /\ response = NoResult
  /\ df = <<>>
  /\ roster_docs = <<>>
  /\ tie_breaking = FreeSolver
  /\ earlier_run = NoRun
  /\ collection = <<>>
  /\ last_request = NoRequest
  /\ table = <<>>
  /\ seating = <<>>
  /\ max_time_seconds = DefaultMaxTime
  /\ batch_timeouts = <<>>
  /\ self_pairing_window_size = DefaultPairingWindow
  /\ store_threads = [t \in Threads |-> NotStarted]
  /\ x_values = <<>>
  /\ penalty_count = 0
  /\ storage \in {StoredTimes(n) : n \in 0..MaxPriorStores}
  /\ store_calls = 0
  /\ version_id = 0
  /\ stored_data = 0
  /\ retrieved = NothingRetrieved

\* lines 252-260: versions = storage.get(versions_key) or [], and the version
\* id made from its length
GetVersions ==
  /\ pc = "concurrent"
  /\ \E t \in Threads, data \in Payloads :
       /\ store_threads[t].pc = "get_versions"
       /\ store_threads' =
            [store_threads EXCEPT ![t] =
               [pc |-> "set_version_key",
                versions |-> storage.versions,
                version_id |-> Len(storage.versions) + 1,
                data |-> data,
                old_versions |-> <<>>]]
  /\ UNCHANGED storage
  /\ UNCHANGED <<df, roster_docs, collection, last_request, table, seating, x_values,
                 penalty_count, max_time_seconds, batch_timeouts, self_pairing_window_size,
                 store_calls, version_id, stored_data, retrieved, tie_breaking, earlier_run,
                 sessionVars, loopVars, builder, last_x, first_x, result, solver_calls,
                 stored, regenVars, pc>>

\* lines 262-287: storage.set(version_key, result_with_metadata), then the
\* append and the split into old_versions and versions
SetVersionKey ==
  /\ pc = "concurrent"
  /\ \E t \in Threads :
       LET my == store_threads[t]
           appended == Append(my.versions, my.version_id)
           prune == Len(appended) > MaxResultVersions
       IN /\ my.pc = "set_version_key"
          /\ storage' =
               [storage EXCEPT !.results =
                  [n \in (DOMAIN storage.results) \cup {my.version_id} |->
                     IF n = my.version_id
                     THEN [data |-> my.data, version_id |-> my.version_id]
                     ELSE storage.results[n]]]
          /\ store_threads' =
               [store_threads EXCEPT ![t] =
                  [my EXCEPT
                     !.pc = IF prune THEN "delete_old" ELSE "set_versions",
                     !.old_versions =
                        IF prune THEN SubSeq(appended, 1, Len(appended) - MaxResultVersions)
                        ELSE <<>>,
                     !.versions =
                        IF prune
                        THEN SubSeq(appended, Len(appended) - MaxResultVersions + 1,
                                    Len(appended))
                        ELSE appended]]
  /\ UNCHANGED <<df, roster_docs, collection, last_request, table, seating, x_values,
                 penalty_count, max_time_seconds, batch_timeouts, self_pairing_window_size,
                 store_calls, version_id, stored_data, retrieved, tie_breaking, earlier_run,
                 sessionVars, loopVars, builder, last_x, first_x, result, solver_calls,
                 stored, regenVars, pc>>

\* lines 289-291: one storage.delete(old_version_key) of the loop
DeleteOldVersion ==
  /\ pc = "concurrent"
  /\ \E t \in Threads :
       LET my == store_threads[t] IN
         /\ my.pc = "delete_old"
         /\ storage' =
              [storage EXCEPT !.results =
                 [n \in (DOMAIN storage.results) \ {Head(my.old_versions)} |->
                    storage.results[n]]]
         /\ store_threads' =
              [store_threads EXCEPT ![t] =
                 [my EXCEPT
                    !.pc = IF Tail(my.old_versions) = <<>> THEN "set_versions"
                           ELSE "delete_old",
                    !.old_versions = Tail(my.old_versions)]]
  /\ UNCHANGED <<df, roster_docs, collection, last_request, table, seating, x_values,
                 penalty_count, max_time_seconds, batch_timeouts, self_pairing_window_size,
                 store_calls, version_id, stored_data, retrieved, tie_breaking, earlier_run,
                 sessionVars, loopVars, builder, last_x, first_x, result, solver_calls,
                 stored, regenVars, pc>>

\* line 294: storage.set(versions_key, versions)
SetVersions ==
  /\ pc = "concurrent"
  /\ \E t \in Threads :
       /\ store_threads[t].pc = "set_versions"
       /\ storage' = [storage EXCEPT !.versions = store_threads[t].versions]
       /\ store_threads' = [store_threads EXCEPT ![t].pc = "set_latest"]
  /\ UNCHANGED <<df, roster_docs, collection, last_request, table, seating, x_values,
                 penalty_count, max_time_seconds, batch_timeouts, self_pairing_window_size,
                 store_calls, version_id, stored_data, retrieved, tie_breaking, earlier_run,
                 sessionVars, loopVars, builder, last_x, first_x, result, solver_calls,
                 stored, regenVars, pc>>

\* lines 296-300: storage.set(latest_key, version_id); return version_id
SetLatest ==
  /\ pc = "concurrent"
  /\ \E t \in Threads :
       /\ store_threads[t].pc = "set_latest"
       /\ storage' = [storage EXCEPT !.latest = store_threads[t].version_id]
       /\ store_threads' = [store_threads EXCEPT ![t].pc = "returned"]
  /\ UNCHANGED <<df, roster_docs, collection, last_request, table, seating, x_values,
                 penalty_count, max_time_seconds, batch_timeouts, self_pairing_window_size,
                 store_calls, version_id, stored_data, retrieved, tie_breaking, earlier_run,
                 sessionVars, loopVars, builder, last_x, first_x, result, solver_calls,
                 stored, regenVars, pc>>

ConcurrentNext ==
  \/ GetVersions
  \/ SetVersionKey
  \/ DeleteOldVersion
  \/ SetVersions
  \/ SetLatest

ConcurrentSpec == ConcurrentInit /\ [][ConcurrentNext]_vars

\* ================================================================ properties
\* the number of seats of a session of the output that hold the view v
SeatCount(assignment, v) ==
  Cardinality({m \in DOMAIN SeatList(assignment) : SeatList(assignment)[m][2] = v})

\* the number of participants of a roster whose view is v
RosterCount(roster, v) ==
  Cardinality({i \in DOMAIN roster : View(roster[i]) = v})

\* the seats of a session are the roster, view for view
EveryoneOnce(assignment, roster) ==
  /\ Len(SeatList(assignment)) = Len(roster)
  /\ \A i \in DOMAIN roster :
       SeatCount(assignment, View(roster[i])) = RosterCount(roster, View(roster[i]))

Returned(kind) ==
  /\ pc = "returned"
  /\ result.status = kind

Incremental == batch_size > 0

\* C1: in every successful result of generate_assignments and of
\* generate_assignments_incremental, every session 1..S is present, is the
\* decoding of the solver values that produced it, and seats each participant
\* of the roster at exactly one table: one variable of the participant is
\* true, and the table lists hold the roster's views, each as often as the
\* roster does.
C1_ExactlyOneTable ==
  Returned("success") =>
    /\ Len(first_x) = num_sessions
    /\ Len(result.assignments) = num_sessions
    /\ \A s \in 1..num_sessions :
         /\ result.assignments[s].session = s
         /\ result.assignments[s] = DecodeSession(builder, first_x, s - 1)
         /\ \A i \in DOMAIN participants :
              Cardinality(first_x[s][participants[i].id]) = 1
         /\ EveryoneOnce(result.assignments[s], participants)

\* an incremental run of two batches has returned two sessions
C1_Witness ==
  /\ Returned("success")
  /\ Incremental
  /\ Len(solver_calls) = 2
  /\ Len(participants) = 4
  /\ num_tables = 2

\* the members of a class seated at table number n of a session of the
\* output, a table absent from the output counting as 0
TableCount(assignment, n, class) ==
  IF n \in DOMAIN assignment.tables
  THEN Cardinality({m \in DOMAIN assignment.tables[n] : assignment.tables[n][m] \in class})
  ELSE 0

ViewsOf(roster) == {View(roster[i]) : i \in DOMAIN roster}

\* all participants, the participants of one religion, those of one gender
Classes(roster) ==
  {ViewsOf(roster)}
    \cup {{v \in ViewsOf(roster) : v.religion = r} :
            r \in {roster[i].religion : i \in DOMAIN roster}}
    \cup {{v \in ViewsOf(roster) : v.gender = g} :
            g \in {roster[i].gender : i \in DOMAIN roster}}

Balanced(assignment, roster, tables) ==
  \A class \in Classes(roster) : \A n1, n2 \in 1..tables :
    TableCount(assignment, n1, class) - TableCount(assignment, n2, class) <= 1

\* C2: in every successful result (full, incremental, single-session
\* regeneration) and every session of it, the members of each class (everyone,
\* one religion, one gender of the roster given to the solver) at any two of
\* the T tables differ by at most 1; so do the sessions a batch has committed
\* and the regenerated session of the response.
C2_Balanced ==
  /\ result.status = "success" =>
       \A k \in DOMAIN result.assignments :
         Balanced(result.assignments[k], builder.participants, num_tables)
  /\ \A k \in DOMAIN all_assignments :
       Balanced(all_assignments[k], participants, num_tables)
  /\ pc = "regen_done" =>
       Balanced(response.assignments[session_number], builder.participants, num_tables)

\* a regeneration with an absent participant succeeded, and some class has one
\* member more at one table than at another
C2_Witness ==
  /\ pc = "regen_done"
  /\ absent_participants # {}
  /\ Len(builder.participants) < Len(participants)
  /\ \E class \in Classes(builder.participants) : \E n1, n2 \in 1..num_tables :
       TableCount(response.assignments[session_number], n1, class)
         = TableCount(response.assignments[session_number], n2, class) + 1

\* the participants of a roster that share a couple_id sit at pairwise
\* different tables under the solver values xs of one session
CouplesApart(roster, xs) ==
  \A i, j \in DOMAIN roster :
    (i # j /\ roster[i].couple_id # 0 /\ roster[i].couple_id = roster[j].couple_id)
      => xs[roster[i].id] \cap xs[roster[j].id] = {}

\* no table list holds a participant together with the partner they name
NoPartnersTogether(assignment) ==
  \A n \in DOMAIN assignment.tables : \A a, b \in DOMAIN assignment.tables[n] :
    a # b /\ assignment.tables[n][a].partner # 0
      => assignment.tables[n][a].partner # assignment.tables[n][b].name

\* C3: in every successful result and every session of it the participants
\* that share a couple_id are at pairwise different tables: in the values that
\* produced each session of the output, in every session of the model a later
\* batch solved (the sessions earlier batches fixed included), and in the
\* table lists themselves.
C3_CouplesSeparated ==
  /\ result.status = "success" =>
       /\ \A s \in DOMAIN last_x : CouplesApart(builder.participants, last_x[s])
       /\ \A k \in DOMAIN result.assignments : NoPartnersTogether(result.assignments[k])
  /\ Returned("success") =>
       \A s \in DOMAIN first_x :
         /\ CouplesApart(participants, first_x[s])
         /\ result.assignments[s] = DecodeSession(builder, first_x, s - 1)
  /\ \A k \in DOMAIN all_assignments : NoPartnersTogether(all_assignments[k])

\* a second batch has been solved for a roster with a couple
C3_Witness ==
  /\ Returned("success")
  /\ Incremental
  /\ Len(solver_calls) = 2
  /\ \E i \in DOMAIN participants : participants[i].couple_id # 0
  /\ Len(participants) = 4

\* C4: in generate_assignments_incremental, the model a later batch solved
\* seats every participant, in every session an earlier batch produced, at
\* the table that batch gave them.
C4_EarlierSessionsKept ==
  (Incremental /\ pc \in {"batch", "returned"}) =>
    \A s \in DOMAIN first_x :
      s \in DOMAIN last_x =>
        \A i \in DOMAIN participants :
          last_x[s][participants[i].id] = first_x[s][participants[i].id]

\* C4, second half: session s of the output is the seating of the batch that
\* first solved s.
C4_OutputFromFirstSolve ==
  (Incremental /\ pc \in {"batch", "returned"}) =>
    /\ Len(all_assignments) = Len(first_x)
    /\ \A s \in DOMAIN first_x :
         all_assignments[s] = DecodeSession(builder, first_x, s - 1)

\* C10: when the solve of a batch is not a success, what
\* generate_assignments_incremental returns is that solve's failure record and
\* nothing else (status and error, no assignments), every earlier batch had
\* succeeded, and no further batch is solved.
C10_FailureVerbatim ==
  (Incremental /\ pc = "returned" /\ result.status # "success") =>
    /\ solver_calls # <<>>
    /\ result = [status |-> "failure",
                 error |-> solver_calls[Len(solver_calls)].outcome]
    /\ result.error \in {ErrInfeasible, ErrInvalid, ErrTimeout}
    /\ \A k \in 1..(Len(solver_calls) - 1) : solver_calls[k].outcome = "success"
    /\ Len(solver_calls) = (batch_start \div batch_size) + 1
    /\ ~ENABLED SolveBatch

\* a batch after the first failed, with sessions of earlier batches at hand
C10_Witness ==
  /\ Incremental
  /\ Returned("failure")
  /\ Len(solver_calls) = 2
  /\ all_assignments # <<>>

RegenCall(k, kind, ok) ==
  /\ k \in DOMAIN solver_calls
  /\ solver_calls[k].kind = kind
  /\ (solver_calls[k].outcome = "success") <=> ok

\* what the solver was asked in each position of a regeneration
C5_States ==
  /\ pc = "regen_fallback" =>
       /\ Len(solver_calls) = 1
       /\ RegenCall(1, "hard", FALSE)
       /\ response = NoResult
  /\ pc = "regen_done" =>
       /\ response.status_code = 200
       /\ \/ /\ Len(solver_calls) = 1
             /\ RegenCall(1, "hard", TRUE)
             /\ response.assignments_unchanged = FALSE
          \/ /\ Len(solver_calls) = 2
             /\ RegenCall(1, "hard", FALSE)
             /\ RegenCall(2, "soft", TRUE)
             /\ response.assignments_unchanged = TRUE
  /\ (pc = "regen_error" /\ solver_calls # <<>>) =>
       /\ Len(solver_calls) = 2
       /\ RegenCall(1, "hard", FALSE)
       /\ RegenCall(2, "soft", FALSE)
       /\ response = [status_code |-> 400, detail |-> solver_calls[2].outcome]

\* the steps of a regeneration: the first solve is the hard one, a failed hard
\* solve is followed by the soft solve, and an answered call solves no more
C5_Steps ==
  /\ pc = "stored" =>
       \/ pc' = "regen_error" /\ solver_calls' = <<>>
       \/ /\ pc' \in {"regen_done", "regen_fallback"}
          /\ Len(solver_calls') = 1
          /\ solver_calls'[1].kind = "hard"
  /\ pc = "regen_fallback" =>
       /\ pc' \in {"regen_done", "regen_error"}
       /\ solver_calls' = Append(solver_calls, solver_calls'[2])
       /\ solver_calls'[2].kind = "soft"
  /\ pc \in {"regen_done", "regen_error"} => solver_calls' = solver_calls

\* C5: regenerate_single_session solves the hard model first; when that
\* succeeds it answers with assignments_unchanged = false and solves nothing
\* more; when it does not, the soft model is the one thing solved next, once,
\* and its success is answered with assignments_unchanged = true, its failure
\* with the error; the solver runs at most twice in one call.
C5_RegenStateMachine == [](C5_States) /\ [][C5_Steps]_vars

\* the hard attempt found no seating and the soft attempt succeeded
C5_Witness ==
  /\ pc = "regen_done"
  /\ Len(solver_calls) = 2
  /\ solver_calls[1].outcome = ErrInfeasible
  /\ response.assignments_unchanged

\* the entries p -> t of the current-table map of a builder that the hard
\* constraint reads: p a participant of the model, t a table of the model
MapEntries(gb) ==
  {i \in DOMAIN gb.participants :
     /\ gb.participants[i].id \in DOMAIN gb.current_table_assignments
     /\ gb.current_table_assignments[gb.participants[i].id] \in TablesOf(gb)}

HardSolved ==
  /\ builder # NoBuilder
  /\ builder.require_different_assignments
  /\ DOMAIN builder.current_table_assignments # {}
  /\ result.status = "success"

\* C6: when a GroupBuilder with a current-table map and
\* require_different_assignments = true is solved successfully, no participant
\* p with an entry p -> t (t a table index) has its variable for table t of
\* session index 0 true, and t's list in session 1 of the result does not hold
\* p's view (for a view only p has).
C6_HardDifferent ==
  HardSolved =>
    \A i \in MapEntries(builder) :
      LET p == builder.participants[i]
          t == builder.current_table_assignments[p.id]
      IN /\ t \notin last_x[1][p.id]
         /\ (RosterCount(builder.participants, View(p)) = 1
               /\ (t + 1) \in DOMAIN result.assignments[1].tables)
              => View(p) \notin Range(result.assignments[1].tables[t + 1])

\* a hard regeneration succeeded with every active participant in the map
C6_Witness ==
  /\ HardSolved
  /\ pc = "regen_done"
  /\ Len(builder.participants) = 4
  /\ MapEntries(builder) = DOMAIN builder.participants

NamesDistinct(roster) ==
  \A i, j \in DOMAIN roster : roster[i].name = roster[j].name => i = j

\* a seating of the participants of gb that satisfies exactly-one-table,
\* balance, attribute spread and couple separation and seats nobody at the
\* table the current-table map gives them
AlternativeExists(gb) ==
  \E xs \in SessionCandidates(gb) :
    /\ BalanceOK(gb, xs)
    /\ ReligionOK(gb, xs)
    /\ GenderOK(gb, xs)
    /\ CouplesOK(gb, xs)
    /\ \A i \in MapEntries(gb) :
         gb.current_table_assignments[gb.participants[i].id]
           \notin xs[gb.participants[i].id]

NoTimeout == \A k \in DOMAIN solver_calls : solver_calls[k].outcome # ErrTimeout

\* C7: when no solve timed out and a seating of the active participants
\* exists that satisfies the hard constraints and moves everybody off their
\* table of the existing session k, regenerate_single_session answers with
\* assignments_unchanged = false (stated for rosters with distinct names, where
\* the map is exactly the existing seating).
C7_UnchangedOnlyIfForced ==
  (/\ pc = "regen_done"
   /\ NamesDistinct(participants)
   /\ NoTimeout
   /\ AlternativeExists(builder))
  => response.assignments_unchanged = FALSE

\* every session of gb has a seating that satisfies the hard constraints
\* other than symmetry breaking
SatisfiableWithoutSymmetry(gb) ==
  \A s \in SessionsOf(gb) : \E xs \in SessionCandidates(gb) : ConstraintsOK(gb, xs, s)

\* C8: for every GroupBuilder that is solved (with locked positions, with a
\* hard current-table map), if the hard constraints other than symmetry
\* breaking can be satisfied then so can the hard constraints with it.
C8_SymmetrySound ==
  (builder # NoBuilder /\ SatisfiableWithoutSymmetry(builder))
    => Feasible(builder) # {}

\* two names share a table list in a session other than k
CoSeatedElsewhere(assignments, k, n1, n2) ==
  \E m \in DOMAIN assignments :
    /\ assignments[m].session # k
    /\ \E t \in DOMAIN assignments[m].tables :
         \E a, b \in DOMAIN assignments[m].tables[t] :
           /\ a # b
           /\ assignments[m].tables[t][a].name = n1
           /\ assignments[m].tables[t][b].name = n2

\* C9: in a regeneration of session k, every pair of active participants
\* that shares a table in another session of the existing assignments passes
\* the test that adds the pair's meeting in the new session to the objective
\* (stated for rosters with distinct names).
C9_HistoryPenalized ==
  (/\ pc \in {"regen_fallback", "regen_done"}
   /\ NamesDistinct(participants))
  => \A ij \in PairsOf(builder) :
       CoSeatedElsewhere(stored, session_number,
                         builder.participants[ij[1]].name,
                         builder.participants[ij[2]].name)
         => PairKey("int", builder.participants[ij[1]].id, builder.participants[ij[2]].id)
              \in builder.historical_pairings

\* C11: a successful generate_assignments_incremental returns exactly S
\* session entries, and the entry in position s has session number s: the
\* numbers 1..S in ascending order, each once.
C11_SessionsInOrder ==
  (Incremental /\ Returned("success")) =>
    /\ Len(result.assignments) = num_sessions
    /\ \A s \in 1..Len(result.assignments) : result.assignments[s].session = s

\* two batches of one session each were combined
C11_Witness ==
  /\ Incremental
  /\ Returned("success")
  /\ batch_size = 1
  /\ num_sessions = 2
  /\ Len(result.assignments) = 2

\* the participants of the roster, in roster order, whose name is not in A
NotNamedIn(roster, A) ==
  SubSeqAt(roster, {i \in DOMAIN roster : roster[i].name \notin A})

\* C12: after a successful regenerate_single_session of session k with absent
\* names A, the new session k (in the response and in the stored version)
\* seats the roster participants whose name is not in A, each at exactly one
\* table, and nobody whose name is in A.
C12_ActiveOnlySeated ==
  pc = "regen_done" =>
    LET new == response.assignments[session_number]
        active == NotNamedIn(participants, absent_participants)
    IN /\ stored[session_number] = new
       /\ EveryoneOnce(new, active)
       /\ \A m \in DOMAIN SeatList(new) :
            SeatList(new)[m][2].name \notin absent_participants
       /\ \A i \in DOMAIN builder.participants :
            Cardinality(last_x[1][builder.participants[i].id]) = 1
       /\ new.tables = DecodeSession(builder, last_x, 0).tables
       /\ builder.participants = active

\* a regeneration that left a participant of the roster out succeeded
C12_Witness ==
  /\ pc = "regen_done"
  /\ \E i \in DOMAIN participants : participants[i].name \in absent_participants
  /\ Len(participants) = 4
  /\ Len(SeatList(response.assignments[session_number])) = 3

\* a step in which a regeneration succeeds
RegenSucceeds ==
  /\ pc \in {"stored", "regen_fallback"}
  /\ pc' = "regen_done"

\* the step of a successful regeneration of session k keeps the length of the
\* stored list and every entry other than k, replaces entry k by the new
\* session k, and answers with the list it stored
C13_Step ==
  RegenSucceeds =>
    /\ Len(stored') = Len(stored)
    /\ \A m \in DOMAIN stored : m # session_number' => stored'[m] = stored[m]
    /\ stored'[session_number'] =
         [session |-> session_number',
          tables |-> result'.assignments[1].tables,
          absentParticipants |-> absent_participants']
    /\ response'.assignments = stored'
    /\ response'.session = session_number'

RECURSIVE SumLimits(_)
\* the time limits handed to the solver by the calls of a request, added up
SumLimits(calls) ==
  IF calls = <<>> THEN 0 ELSE Head(calls).limit + SumLimits(Tail(calls))

\* C14: the time limits handed to the solver invocations of one call of
\* generate (regular or incremental) or of regenerate_single_session add up
\* to at most the call's max_time_seconds.
C14_TimeBudget == SumLimits(solver_calls) <= DefaultMaxTime

\* C14 for generation alone: the limits of the batches add up to at most
\* max_time_seconds.
C14_GenerationBudget ==
  pc \in {"batch", "returned"} => SumLimits(solver_calls) <= DefaultMaxTime

\* ------------------------------------------------------------- normalizer
\* the participants of the produced list that hold the couple id c
Holders(c) == {i \in DOMAIN participants : participants[i].couple_id = c}

\* C15: in a participant list made for the solver, by
\* dataframe_to_participant_dict from a sheet that passes validation or by
\* _roster_to_participant_list, every couple id that is not None is held by
\* exactly two participants, and each of the two names the other as partner.
C15_CoupleIdsPairUp ==
  pc \in {"normalized", "converted"} =>
    \A c \in {participants[i].couple_id : i \in DOMAIN participants} \ {0} :
      /\ Cardinality(Holders(c)) = 2
      /\ \A i, j \in Holders(c) :
           i # j => participants[i].partner = participants[j].name

\* what does hold of the couple ids: a sheet that passes validation and whose
\* sanitized names are all different gives every couple id to exactly two
\* participants who name each other
C15_DistinctNamesPairUp ==
  pc = "normalized"
    /\ (\A i, j \in DOMAIN participants :
          participants[i].name = participants[j].name => i = j)
    => \A c \in {participants[i].couple_id : i \in DOMAIN participants} \ {0} :
         /\ Cardinality(Holders(c)) = 2
         /\ \A i, j \in Holders(c) :
              i # j => participants[i].partner = participants[j].name

\* C16: sanitizing a sanitized name changes nothing: for every name x of the
\* sheet, _sanitize_name(_sanitize_name(x)) = _sanitize_name(x), so the names
\* of a normalized list are fixed points of _sanitize_name.
C16_SanitizeIdempotent ==
  pc = "normalized" =>
    /\ \A i \in DOMAIN df :
         SanitizeName(SanitizeName(df[i].Name)) = SanitizeName(df[i].Name)
    /\ \A i \in DOMAIN participants :
         SanitizeName(participants[i].name) = participants[i].name

\* C17: a sheet with a row whose name is empty after sanitization is
\* rejected, and no participant of a normalized list has the empty name.
C17_EmptyNameRejected ==
  /\ pc \in {"normalized", "rejected"}
       /\ (\E i \in DOMAIN df : SanitizeName(df[i].Name) = <<>>)
       => pc = "rejected"
  /\ pc = "normalized" => \A i \in DOMAIN participants : participants[i].name # <<>>

\* ------------------------------------------------------------ table maps
\* a successful solve of a model with at least as many participants as tables
SolvedEnough ==
  /\ builder # NoBuilder
  /\ result.status = "success"
  /\ Len(builder.participants) >= builder.num_tables

\* C18: after a successful solve with N >= T, the table map of every session
\* of the result has exactly the keys 1..T and every table lists at least one
\* participant; when N = T every table lists exactly one.
C18_EveryTableUsed ==
  SolvedEnough =>
    \A k \in DOMAIN result.assignments :
      LET tables == result.assignments[k].tables
      IN /\ DOMAIN tables = 1..builder.num_tables
         /\ \A n \in DOMAIN tables : Len(tables[n]) >= 1
         /\ Len(builder.participants) = builder.num_tables =>
              \A n \in DOMAIN tables : Len(tables[n]) = 1

\* a regeneration seated two participants at two tables, one at each
C18_Witness ==
  /\ SolvedEnough
  /\ pc = "regen_done"
  /\ Len(builder.participants) = 2
  /\ builder.num_tables = 2
  /\ \A n \in 1..2 : Len(response.assignments[session_number].tables[n]) = 1

\* ---------------------------------------------------------------- two runs
\* C19: with the same roster, T, B and tie-breaking, the sessions the first k
\* batches of a run with S0 sessions produce are the sessions the first k
\* batches of a run with S0 + dS sessions produce: every session that both
\* runs have produced so far is the same in both.
C19_PrefixIndependent ==
  earlier_run # NoRun =>
    \A n \in 1..Min2(Len(earlier_run.all_assignments), Len(all_assignments)) :
      all_assignments[n] = earlier_run.all_assignments[n]

\* ---------------------------------------------------------------- storage
\* C20: with generated ids the n-th store_result of a session returns 'v{n}',
\* for every n >= 1, so no version id is used twice; and get_result(session,
\* 'v{n}') made right after it returns the data just stored, also when older
\* versions have been pruned.
C20_VersionIdsFresh ==
  /\ pc \in {"result_stored", "result_read"} => version_id = store_calls
  /\ (pc = "result_read" /\ retrieved.asked = store_calls) =>
       retrieved.result = [data |-> stored_data, version_id |-> store_calls]

\* what does hold: up to MAX_RESULT_VERSIONS + 1 calls the n-th call returns
\* 'v{n}', and the version just stored can be read back
C20_FreshUntilPruned ==
  store_calls <= MaxResultVersions + 1 =>
    /\ pc \in {"result_stored", "result_read"} => version_id = store_calls
    /\ (pc = "result_read" /\ retrieved.asked = store_calls) =>
         retrieved.result = [data |-> stored_data, version_id |-> store_calls]

\* C21: after one or more store_result calls for a session, get_result(session)
\* without a version id returns the data of the most recent call: not None and
\* not an older result.
C21_LatestIsNewest ==
  (pc = "result_read" /\ retrieved.asked = 0) =>
    /\ retrieved.result # NoneResult
    /\ retrieved.result.data = stored_data

\* what does hold: through 2 * MAX_RESULT_VERSIONS calls the latest result is
\* the one stored last
C21_NewestUntilSelfPruned ==
  (pc = "result_read" /\ retrieved.asked = 0 /\ store_calls <= 2 * MaxResultVersions) =>
    /\ retrieved.result # NoneResult
    /\ retrieved.result.data = stored_data

\* ----------------------------------------------------------------- roster
\* C22: after DELETE of a roster participant p, no participant left in the
\* roster has partner_id = p, in every roster that PUT and DELETE requests
\* can produce.
C22_NoDanglingPartner ==
  (pc = "deleted" /\ last_request.existed) =>
    \A q \in DOMAIN collection : collection[q].partner_id # last_request.participant_id

\* what does hold: the partner that the deleted participant named, and that
\* named them back, has no partner afterwards
C22_MutualPartnerCleared ==
  [][(pc' = "deleted" /\ last_request'.existed) =>
       LET p == last_request'.participant_id
           q == collection[p].partner_id
       IN (q # 0 /\ q # p /\ q \in DOMAIN collection /\ collection[q].partner_id = p)
            => collection'[q].partner_id = 0]_vars

\* ---------------------------------------------------------------- seating
\* no two neighbours around the circle, the last and the first seat included,
\* share a religion
NoSameReligionNeighbours(circle) ==
  \A i \in DOMAIN circle : circle[i].religion # circle[(i % Len(circle)) + 1].religion

\* some order of the participants around the circle has no two neighbours of
\* one religion
CanAlternate(ps) ==
  \E order \in [DOMAIN ps -> DOMAIN ps] :
    /\ \A i, j \in DOMAIN ps : order[i] = order[j] => i = j
    /\ NoSameReligionNeighbours([i \in DOMAIN ps |-> ps[order[i]]])

\* C23: when the participants of a table can be put around a circle with no
\* two neighbours of one religion, arrange_circular_seating returns such an
\* order of them.
C23_AlternatesWhenPossible ==
  (pc = "arranged" /\ CanAlternate(table)) =>
    /\ {[name |-> seating[i].name, religion |-> seating[i].religion] : i \in DOMAIN seating}
         = Range(table)
    /\ Len(seating) = Len(table)
    /\ NoSameReligionNeighbours(seating)

\* what does hold: the result seats every participant of the table once, at
\* the positions 0, 1, ...
C23_EveryoneSeatedOnce ==
  pc = "arranged" =>
    /\ {[name |-> seating[i].name, religion |-> seating[i].religion] : i \in DOMAIN seating}
         = Range(table)
    /\ Len(seating) = Len(table)
    /\ \A i \in DOMAIN seating : seating[i].position = i - 1

\* ------------------------------------------------------------ batch state
\* the locked map says of participant id, in every session below the batch
\* end, at which table the solve just committed seated them: true for that
\* table and false for every other
LockedExactly(roster) ==
  \A i \in DOMAIN roster : \A s \in 0..(Len(last_x) - 1) : \A t \in TablesOf(builder) :
    /\ <<roster[i].id, s, t>> \in DOMAIN locked
    /\ locked[<<roster[i].id, s, t>>] = (t \in last_x[s + 1][roster[i].id])

\* a batch of an incremental run has just been committed
BatchCommitted ==
  /\ Incremental
  /\ pc \in {"batch", "returned"}
  /\ solver_calls # <<>>
  /\ solver_calls[Len(solver_calls)].outcome = "success"

\* C24: after each committed batch of generate_assignments_incremental the
\* locked map holds, for every participant id and every session index below
\* the batch end, true for the one table the participant was seated at and
\* false for every other table; names need not be distinct.
C24_LockedMatchesSeating ==
  BatchCommitted => LockedExactly(participants)

\* what does hold: the same for rosters whose names are distinct
C24_LockedWhenNamesDistinct ==
  (BatchCommitted /\ NamesDistinct(participants)) => LockedExactly(participants)

\* the unordered pairs of distinct participant ids seated at one table in at
\* least one of the sessions produced so far
SeatedTogether(roster) ==
  {PairKey("int", roster[ij[1]].id, roster[ij[2]].id) :
     ij \in {pq \in (DOMAIN roster) \X (DOMAIN roster) :
               /\ pq[1] < pq[2]
               /\ \E s \in DOMAIN first_x :
                    first_x[s][roster[pq[1]].id] \cap first_x[s][roster[pq[2]].id] # {}}}

\* the historical pairings only grow during the batch loop
HistoryGrows == [][pc = "batch" => historical_pairings \subseteq historical_pairings']_vars

\* C25: during generate_assignments_incremental the historical pairings only
\* grow, and when the batch with first session index start begins they are
\* the unordered pairs of distinct participant ids seated together in at
\* least one of the sessions 0..start-1.
C25_HistoryIsPastPairs ==
  /\ [](pc = "batch" => (Len(first_x) = batch_start
                           /\ historical_pairings = SeatedTogether(participants)))
  /\ HistoryGrows

\* what does hold: the same for rosters whose names are distinct
C25_HistoryWhenNamesDistinct ==
  /\ []((pc = "batch" /\ NamesDistinct(participants)) =>
          (Len(first_x) = batch_start /\ historical_pairings = SeatedTogether(participants)))
  /\ HistoryGrows

\* -------------------------------------------------------------- objective
\* participants i and j of gb sit at the same table in session s under x
ShareTable(gb, x, i, j, s) ==
  x[s + 1][gb.participants[i].id] = x[s + 1][gb.participants[j].id]

\* the triples (pair of participants, s1, s2) with s1 < s2, s2 - s1 <= W in
\* which the pair shares a table in s1 and in s2
RepeatMeetings(gb, x, W) ==
  {<<i, j, s1, s2>> \in (DOMAIN gb.participants) \X (DOMAIN gb.participants)
                          \X (0..(gb.num_sessions - 1)) \X (0..(gb.num_sessions - 1)) :
     /\ i < j
     /\ s1 < s2
     /\ s2 - s1 <= W
     /\ ShareTable(gb, x, i, j, s1)
     /\ ShareTable(gb, x, i, j, s2)}

\* C26: without historical pairings and current-table map, for values of the
\* variables that satisfy exactly-one-table, the expression the model
\* minimizes is the number of triples (pair, s1, s2) with s1 < s2 and
\* s2 - s1 <= W in which the pair shares a table in both sessions; sessions
\* further apart than W add nothing.
C26_PenaltyCountsRepeats ==
  pc = "objective" =>
    penalty_count = Cardinality(RepeatMeetings(builder, x_values, builder.pairing_window_size))

\* with W = 1 two participants share a table in sessions 0 and 2 and not in
\* session 1, and the objective is 0
C26_Witness ==
  /\ pc = "objective"
  /\ builder.pairing_window_size = 1
  /\ builder.num_sessions = 3
  /\ penalty_count = 0
  /\ \E i, j \in DOMAIN builder.participants :
       /\ i < j
       /\ ShareTable(builder, x_values, i, j, 0)
       /\ ~ShareTable(builder, x_values, i, j, 1)
       /\ ShareTable(builder, x_values, i, j, 2)


\* ------------------------------------------------------------------- C27
RECURSIVE SumSlices(_)

SumSlices(slices) ==
  IF slices = <<>> THEN 0 ELSE Head(slices) + SumSlices(Tail(slices))

\* the batches the loop of generate_assignments_incremental executes: one for
\* each batch_start in range(0, total_sessions, batch_size)
LoopBatches == Cardinality({b \in 0..(num_sessions - 1) : b % batch_size = 0})

\* C27: _calculate_batch_timeouts returns one slice for each batch the loop
\* executes, n = ceil(S/B) of them: the whole budget D when n = 1, otherwise
\* D/2 for the first batch and (D/2)/(n-1) for each other batch, and the
\* slices sum to D.
C27_SlicesSplitBudget ==
  pc = "budget_split" =>
    LET n == LoopBatches
    IN /\ n * batch_size >= num_sessions
       /\ (n - 1) * batch_size < num_sessions
       /\ Len(batch_timeouts) = n
       /\ n = 1 => batch_timeouts = <<max_time_seconds>>
       /\ n > 1 =>
            /\ 2 * batch_timeouts[1] = max_time_seconds
            /\ \A k \in 2..n : 2 * (n - 1) * batch_timeouts[k] = max_time_seconds
       /\ SumSlices(batch_timeouts) = max_time_seconds

C27_Witness ==
  /\ pc = "budget_split"
  /\ Len(batch_timeouts) >= 3
  /\ batch_timeouts[1] # batch_timeouts[2]


\* ------------------------------------------------------------------- C28
\* the names a session assignment seats at table number n
NamesAtTable(assignment, n) ==
  IF n \in DOMAIN assignment.tables
  THEN {assignment.tables[n][m].name : m \in DOMAIN assignment.tables[n]}
  ELSE {}

\* every active participant sits at the same table number in both assignments
SameSeats(old, new, active) ==
  \A n \in 1..num_tables, i \in DOMAIN active :
    active[i].name \in NamesAtTable(old, n) <=> active[i].name \in NamesAtTable(new, n)

\* C28: whenever regenerate_single_session answers assignments_unchanged =
\* true, session k of the returned assignments seats every active participant
\* at the table the existing session k seated them at.
C28_UnchangedIsUnchanged ==
  [][(/\ pc = "regen_fallback"
      /\ pc' = "regen_done"
      /\ response'.assignments_unchanged = TRUE)
     => SameSeats(stored[session_number],
                  response'.assignments[session_number],
                  GetActiveParticipants(participants, absent_participants))]_vars


\* ------------------------------------------------------------------- C29
\* the model solved last is a batch model of generate_assignments_incremental
BatchModelSolved ==
  /\ solver_calls # <<>>
  /\ solver_calls[Len(solver_calls)].kind = "batch"

\* C29: every batch model built by generate_assignments_incremental uses the
\* pairing window size of the GroupBuilder on which the method was called (as
\* the model of generate_assignments of that builder does).
C29_BatchUsesCallersWindow ==
  BatchModelSolved => builder.pairing_window_size = self_pairing_window_size

\* the model that generate_assignments of the same builder solves does use it
C29_RegularUsesCallersWindow ==
  (solver_calls # <<>> /\ solver_calls[Len(solver_calls)].kind = "full")
    => builder.pairing_window_size = self_pairing_window_size


\* ------------------------------------------------------------------- C30
BothReturned == \A t \in Threads : store_threads[t].pc = "returned"

\* C30: after two store_result calls for one session that ran concurrently,
\* interleaved storage operation by storage operation, both results can be
\* retrieved under two distinct version ids and both ids are in the version
\* list.
C30_BothResultsKept ==
  (pc = "concurrent" /\ BothReturned) =>
    /\ store_threads[1].version_id # store_threads[2].version_id
    /\ \A t \in Threads :
         /\ GetResult(storage, store_threads[t].version_id)
              = [data |-> store_threads[t].data,
                 version_id |-> store_threads[t].version_id]
         /\ store_threads[t].version_id \in Range(storage.versions)

====
